---------------------------- MODULE Spec2Model ----------------------------
(***************************************************************************)
(* floodgate: adaptive, latency-driven admission control.                  *)
(*                                                                         *)
(* The module holds the circuit breaker (circuit_breaker.go), the          *)
(* dispatcher (dispatcher.go), the latency tracker and the classifier      *)
(* (tracker.go, level.go) and the admission pipeline that wires them       *)
(* (the HTTP middleware and the gRPC interceptor).                         *)
(*                                                                         *)
(* Time is a clock `now` counted in ticks, TicksPerSecond ticks to the     *)
(* second; every time.Now() of the code reads it.                          *)
(***************************************************************************)
EXTENDS Integers, Sequences, FiniteSets, TLC

VARIABLES
    now,            \* the monotonic clock read by time.Now(), in ticks
    breaker,        \* the CircuitBreaker struct
    call,           \* the latest call made on the breaker and what it returned
    lastChangeAt,   \* history: the clock at the latest change of breaker.state, or Never
    prevChangeAt,   \* history: the clock at the change before that one, or Never
    trackers,       \* the emaTracker objects created so far, by number
    disp,           \* the Dispatcher struct: inputCh (with its capacity) and the counters
    worker,         \* the goroutine of Dispatcher.run: where it is, the event it holds
    cancelled,      \* whether ctx.Done() is closed
    req,            \* the callers: each one's position, locals and what it did
    transport,      \* the adapter the pipeline was built by: "http" or "grpc"
    registry,       \* the expirable LRU of trackers, most recently used first
    limits,         \* the model's bounds on concurrency and on admitted requests
    hist,           \* history: the runs of successive decisions
    probe           \* a pure function on its own: its arguments and its results

breakerVars == <<now, breaker, call, lastChangeAt, prevChangeAt>>

dispatcherVars == <<trackers, disp, worker, cancelled>>

pipelineVars == <<transport, registry, limits, hist>>

vars == <<now, breaker, call, lastChangeAt, prevChangeAt,
          trackers, disp, worker, cancelled, req,
          transport, registry, limits, hist, probe>>

----------------------------------------------------------------------------
(* Bounds of the model *)

\* clock ticks per second
TicksPerSecond == 2
\* the clock stops advancing at this tick
MaxTime == 8
\* the largest failure / success count the model lets a counter reach
MaxCount == 3
\* the largest maxFailures a breaker on its own is configured with
MaxFailuresCfg == 2
\* the largest successThreshold a breaker on its own is configured with
MaxSuccessCfg == 2
\* the largest capacity of inputCh a dispatcher on its own is made with
MaxBuf == 2
\* the number of Emit calls made on a dispatcher on its own
MaxEmits == 3

\* the longest a handler runs, in ticks
MaxHandlerTicks == 1
\* the ticks that pass while the pipeline takes requests side by side
MaxTicks == 2
\* how far past its threshold a counter of the pipeline's breaker goes
MaxExtra == 1
\* the number of requests the pipeline admits when it takes them side by side
MaxAdmitted == 2
\* the number of requests the pipeline admits when it takes them one at a time
MaxSerialEmits == 5
\* the number of requests the pipeline admits while it fills its cache
MaxRegistryEmits == 2
\* the ticks a slow handler may take
MaxSlowTicks == 3
\* the number of requests the pipeline admits when its handlers are slow
MaxSlowEmits == 2
\* the number of requests the pipeline with two endpoints at Emergency admits
MaxSharedEmits == 2
\* the ticks the pipeline with two endpoints at Emergency runs for
MaxSharedTicks == 2
\* the number of requests the pipeline admits around its cancellation
MaxCancelEmits == 3
\* the number of trackers a pipeline makes
MaxTrackers == 8
\* the number of trackers the pipeline with two endpoints at Emergency makes
MaxSharedTrackers == 3
\* the number of calls of Process and Value made on a tracker whose locks
\* are followed
MaxLockCalls == 3
\* the number of samples of one value that a tracker is fed in a row
MaxSame == 75
\* the number of samples fed to a tracker that keeps percentiles
MaxFeed == 24
\* the steps of Process that fall within one call of Value
MaxOverlap == 3

\* the goroutines that call into the pipeline, the dispatcher
Reqs == {"r1", "r2"}

Never == 0 - 1

----------------------------------------------------------------------------
(* circuit_breaker.go *)

StateClosed == "closed"
StateOpen == "open"
StateHalfOpen == "half-open"

CircuitState == {StateClosed, StateOpen, StateHalfOpen}

\* minTimeBetweenOps: 1 * time.Second
MinTimeBetweenOps == 1 * TicksPerSecond

NewCircuitBreaker(maxFailures, timeout, successThreshold, t) ==
    [state             |-> StateClosed,
     failureCount      |-> 0,
     successCount      |-> 0,
     lastStateTime     |-> t,
     maxFailures       |-> maxFailures,
     timeout           |-> timeout,
     successThreshold  |-> successThreshold,
     minTimeBetweenOps |-> MinTimeBetweenOps]

\* Allow as it would be with the timeout compared by > instead of >=
AllowLate(cb, t) ==
    CASE cb.state = StateClosed -> [cb |-> cb, ok |-> TRUE]
      [] cb.state = StateOpen ->
            IF t - cb.lastStateTime > cb.timeout
            THEN [cb |-> [cb EXCEPT !.state = StateHalfOpen,
                                    !.successCount = 0,
                                    !.failureCount = 0,
                                    !.lastStateTime = t],
                  ok |-> TRUE]
            ELSE [cb |-> cb, ok |-> FALSE]
      [] cb.state = StateHalfOpen -> [cb |-> cb, ok |-> TRUE]
      [] OTHER -> [cb |-> cb, ok |-> FALSE]

\* Allow at clock t: the breaker afterwards and the value returned
Allow(cb, t) ==
    CASE cb.state = StateClosed -> [cb |-> cb, ok |-> TRUE]
      [] cb.state = StateOpen ->
            IF t - cb.lastStateTime >= cb.timeout
            THEN [cb |-> [cb EXCEPT !.state = StateHalfOpen,
                                    !.successCount = 0,
                                    !.failureCount = 0,
                                    !.lastStateTime = t],
                  ok |-> TRUE]
            ELSE [cb |-> cb, ok |-> FALSE]
      [] cb.state = StateHalfOpen -> [cb |-> cb, ok |-> TRUE]
      [] OTHER -> [cb |-> cb, ok |-> FALSE]

\* RecordSuccess as it would be without the minTimeBetweenOps test
RecordSuccessUnlimited(cb, t) ==
    CASE cb.state = StateHalfOpen ->
            LET n == cb.successCount + 1 IN
            IF n >= cb.successThreshold
            THEN [cb EXCEPT !.state = StateClosed,
                            !.failureCount = 0,
                            !.successCount = 0,
                            !.lastStateTime = t]
            ELSE [cb EXCEPT !.successCount = n]
      [] cb.state = StateClosed -> [cb EXCEPT !.failureCount = 0]
      [] OTHER -> cb

\* RecordSuccess as it would be if it cleared the failure count in Open as
\* it does in Closed
RecordSuccessInOpen(cb, t) ==
    CASE cb.state = StateHalfOpen ->
            LET n == cb.successCount + 1 IN
            IF n >= cb.successThreshold /\ t - cb.lastStateTime >= cb.minTimeBetweenOps
            THEN [cb EXCEPT !.state = StateClosed,
                            !.failureCount = 0,
                            !.successCount = 0,
                            !.lastStateTime = t]
            ELSE [cb EXCEPT !.successCount = n]
      [] OTHER -> [cb EXCEPT !.failureCount = 0]

\* RecordSuccess at clock t: the breaker afterwards
RecordSuccess(cb, t) ==
    CASE cb.state = StateHalfOpen ->
            LET n == cb.successCount + 1 IN
            IF n >= cb.successThreshold /\ t - cb.lastStateTime >= cb.minTimeBetweenOps
            THEN [cb EXCEPT !.state = StateClosed,
                            !.failureCount = 0,
                            !.successCount = 0,
                            !.lastStateTime = t]
            ELSE [cb EXCEPT !.successCount = n]
      [] cb.state = StateClosed -> [cb EXCEPT !.failureCount = 0]
      [] OTHER -> cb

\* RecordFailure as it would be with the count compared by > instead of >=
RecordFailureOffByOne(cb, t) ==
    CASE cb.state = StateClosed ->
            LET n == cb.failureCount + 1 IN
            IF n > cb.maxFailures /\ t - cb.lastStateTime >= cb.minTimeBetweenOps
            THEN [cb EXCEPT !.failureCount = n,
                            !.state = StateOpen,
                            !.lastStateTime = t]
            ELSE [cb EXCEPT !.failureCount = n]
      [] cb.state = StateHalfOpen ->
            IF t - cb.lastStateTime >= cb.minTimeBetweenOps
            THEN [cb EXCEPT !.state = StateOpen, !.lastStateTime = t]
            ELSE cb
      [] OTHER -> cb

\* RecordFailure as it would be without the minTimeBetweenOps test in HalfOpen
RecordFailureUnlimited(cb, t) ==
    CASE cb.state = StateClosed ->
            LET n == cb.failureCount + 1 IN
            IF n >= cb.maxFailures /\ t - cb.lastStateTime >= cb.minTimeBetweenOps
            THEN [cb EXCEPT !.failureCount = n,
                            !.state = StateOpen,
                            !.lastStateTime = t]
            ELSE [cb EXCEPT !.failureCount = n]
      [] cb.state = StateHalfOpen -> [cb EXCEPT !.state = StateOpen, !.lastStateTime = t]
      [] OTHER -> cb

\* RecordFailure at clock t: the breaker afterwards
RecordFailure(cb, t) ==
    CASE cb.state = StateClosed ->
            LET n == cb.failureCount + 1 IN
            IF n >= cb.maxFailures /\ t - cb.lastStateTime >= cb.minTimeBetweenOps
            THEN [cb EXCEPT !.failureCount = n,
                            !.state = StateOpen,
                            !.lastStateTime = t]
            ELSE [cb EXCEPT !.failureCount = n]
      [] cb.state = StateHalfOpen ->
            IF t - cb.lastStateTime >= cb.minTimeBetweenOps
            THEN [cb EXCEPT !.state = StateOpen, !.lastStateTime = t]
            ELSE cb
      [] OTHER -> cb

State(cb) == cb.state

Reset(cb, t) ==
    [cb EXCEPT !.state = StateClosed,
               !.failureCount = 0,
               !.successCount = 0,
               !.lastStateTime = t]

----------------------------------------------------------------------------
(* tracker.go, options.go: the latency tracker.  Durations are counted in   *)
(* milliseconds.                                                            *)

\* const scale = 1024
scale == 1024

\* Go's integer division, which truncates toward zero
Quot(a, b) ==
    IF (a >= 0) = (b > 0) THEN (IF a >= 0 THEN a ELSE 0 - a) \div (IF b > 0 THEN b ELSE 0 - b)
    ELSE 0 - ((IF a >= 0 THEN a ELSE 0 - a) \div (IF b > 0 THEN b ELSE 0 - b))

\* Go's %, whose result has the sign of the dividend
Rem(a, b) == a - b * Quot(a, b)

\* x >> 10 on an int64: the arithmetic shift rounds toward minus infinity
Shr10(x) == x \div 1024

\* int64(alpha * scale) for a float32 alpha given in thousandths, after the
\* clamp of WithAlpha
AlphaFixed(alphaMilli) ==
    LET a == IF alphaMilli <= 0 THEN 10
             ELSE IF alphaMilli >= 1000 THEN 990 ELSE alphaMilli
    IN (a * scale) \div 1000

\* WithWindowSize's clamp
ClampWindow(size) == IF size < 4 THEN 4 ELSE size

\* WithPercentiles' clamp
ClampSamples(sampleSize) == IF sampleSize < 10 THEN 10 ELSE sampleSize

RECURSIVE Zeros(_)
Zeros(n) == IF n <= 0 THEN <<>> ELSE <<0>> \o Zeros(n - 1)

\* percentDrift is a float64: the model keeps the quotient it is computed
\* from, drift * 100 over historicalAvg
NoPercentDrift == [num |-> 0, den |-> 1]

\* NewTracker(WithAlpha(alpha), WithWindowSize(windowSize),
\* WithPercentiles(sampleSize)); percentiles is FALSE when WithPercentiles is
\* not among the options
NewTracker(alphaMilli, windowSize, percentiles, sampleSize) ==
    [alpha                |-> AlphaFixed(alphaMilli),
     alphaComp            |-> scale - AlphaFixed(alphaMilli),
     windowSize           |-> ClampWindow(windowSize),
     emaSlice             |-> <<>>,
     emaNanos             |-> 0,
     processCount         |-> 0,
     slope                |-> 0,
     drift                |-> 0,
     percentDrift         |-> NoPercentDrift,
     percentileEnabled    |-> percentiles,
     samples              |-> <<>>,
     sampleSize           |-> IF percentiles THEN ClampSamples(sampleSize) ELSE 1000,
     sampleIndex          |-> 0,
     sortBuffer           |-> IF percentiles THEN Zeros(ClampSamples(sampleSize)) ELSE <<>>,
     cachedP50            |-> 0,
     cachedP95            |-> 0,
     cachedP99            |-> 0,
     lastPercentileCalcAt |-> 0,
     percentileCacheValid |-> FALSE]

\* the struct literal of NewTracker, before any option is applied
DefaultTracker ==
    [alpha                |-> 256,
     alphaComp            |-> 0,
     windowSize           |-> 20,
     emaSlice             |-> <<>>,
     emaNanos             |-> 0,
     processCount         |-> 0,
     slope                |-> 0,
     drift                |-> 0,
     percentDrift         |-> NoPercentDrift,
     percentileEnabled    |-> FALSE,
     samples              |-> <<>>,
     sampleSize           |-> 1000,
     sampleIndex          |-> 0,
     sortBuffer           |-> <<>>,
     cachedP50            |-> 0,
     cachedP95            |-> 0,
     cachedP99            |-> 0,
     lastPercentileCalcAt |-> 0,
     percentileCacheValid |-> FALSE]

\* WithAlpha(alpha)(t), alpha given in thousandths
WithAlpha(t, alphaMilli) ==
    [t EXCEPT !.alpha = AlphaFixed(alphaMilli),
              !.alphaComp = scale - AlphaFixed(alphaMilli)]

\* WithWindowSize(size)(t)
WithWindowSize(t, size) ==
    [t EXCEPT !.windowSize = ClampWindow(size), !.emaSlice = <<>>]

\* WithPercentiles(sampleSize)(t)
WithPercentiles(t, sampleSize) ==
    [t EXCEPT !.percentileEnabled = TRUE,
              !.sampleSize = ClampSamples(sampleSize),
              !.samples = <<>>,
              !.sortBuffer = Zeros(ClampSamples(sampleSize))]

\* opt(t), for an option given by its name and its argument
ApplyOption(t, opt) ==
    IF opt.name = "WithAlpha" THEN WithAlpha(t, opt.arg)
    ELSE IF opt.name = "WithWindowSize" THEN WithWindowSize(t, opt.arg)
    ELSE WithPercentiles(t, opt.arg)

\* the loop `for _, opt := range opts { opt(t) }`
RECURSIVE ApplyOptions(_, _)
ApplyOptions(t, opts) ==
    IF opts = <<>> THEN t
    ELSE ApplyOptions(ApplyOption(t, Head(opts)), Tail(opts))

\* NewTracker(opts...), were alphaComp left as the options set it
NewTrackerOptionsOnly(opts) == ApplyOptions(DefaultTracker, opts)

\* NewTracker(opts...): the options in order, then t.alphaComp = scale - t.alpha
NewTrackerWith(opts) ==
    LET t == ApplyOptions(DefaultTracker, opts)
    IN [t EXCEPT !.alphaComp = scale - t.alpha]

RECURSIVE SumSeq(_)
SumSeq(q) == IF q = <<>> THEN 0 ELSE Head(q) + SumSeq(Tail(q))

\* the sum of emaSlice[i] - emaSlice[i-1] over 1 <= i < n
RECURSIVE SlopeSum(_)
SlopeSum(q) ==
    IF Len(q) < 2 THEN 0
    ELSE (q[2] - q[1]) + SlopeSum(Tail(q))

calculateTrend(t) ==
    LET n == Len(t.emaSlice) IN
    IF n < 4
    THEN [t EXCEPT !.slope = 0, !.drift = 0, !.percentDrift = NoPercentDrift]
    ELSE LET mid == n \div 2
             oldSum == SumSeq(SubSeq(t.emaSlice, 1, mid))
             newSum == SumSeq(SubSeq(t.emaSlice, mid + 1, n))
             historicalAvg == Quot(oldSum, mid)
             recentAvg == Quot(newSum, n - mid)
             d == recentAvg - historicalAvg
         IN [t EXCEPT !.slope = Quot(SlopeSum(t.emaSlice), n - 1),
                      !.drift = d,
                      !.percentDrift =
                          IF historicalAvg # 0 /\ d # 0
                          THEN [num |-> d * 100, den |-> historicalAvg]
                          ELSE NoPercentDrift]

\* Process, the part under mu, were the first sample smoothed like the others
ProcessEMASmoothed(t, newValue) ==
    LET ema == Shr10(t.alpha * newValue + t.alphaComp * t.emaNanos)
        slice == IF Len(t.emaSlice) < t.windowSize
                 THEN Append(t.emaSlice, ema)
                 ELSE Append(SubSeq(t.emaSlice, 2, t.windowSize), ema)
        t1 == [t EXCEPT !.emaNanos = ema,
                        !.emaSlice = slice,
                        !.processCount = t.processCount + 1]
    IN IF t1.processCount % 8 = 0 THEN calculateTrend(t1) ELSE t1

\* Process, the part under mu, were the trend computed at every sample
ProcessEMAEager(t, newValue) ==
    LET ema == IF Len(t.emaSlice) = 0 THEN newValue
               ELSE Shr10(t.alpha * newValue + t.alphaComp * t.emaNanos)
        slice == IF Len(t.emaSlice) < t.windowSize
                 THEN Append(t.emaSlice, ema)
                 ELSE Append(SubSeq(t.emaSlice, 2, t.windowSize), ema)
        t1 == [t EXCEPT !.emaNanos = ema,
                        !.emaSlice = slice,
                        !.processCount = t.processCount + 1]
    IN calculateTrend(t1)

\* Process, the part under mu: the EMA, the EMA window and the trend
ProcessEMA(t, newValue) ==
    LET ema == IF Len(t.emaSlice) = 0 THEN newValue
               ELSE Shr10(t.alpha * newValue + t.alphaComp * t.emaNanos)
        slice == IF Len(t.emaSlice) < t.windowSize
                 THEN Append(t.emaSlice, ema)
                 ELSE Append(SubSeq(t.emaSlice, 2, t.windowSize), ema)
        t1 == [t EXCEPT !.emaNanos = ema,
                        !.emaSlice = slice,
                        !.processCount = t.processCount + 1]
    IN IF t1.processCount % 8 = 0 THEN calculateTrend(t1) ELSE t1

\* Process, the part under percentileMu, were a full reservoir overwritten
\* at its first slot every time
ProcessSampleFirstSlot(t, newValue) ==
    IF ~t.percentileEnabled THEN t
    ELSE LET t1 == IF Len(t.samples) < t.sampleSize
                   THEN [t EXCEPT !.samples = Append(t.samples, newValue)]
                   ELSE [t EXCEPT !.samples[1] = newValue,
                                  !.sampleIndex = Rem(t.sampleIndex + 1, t.sampleSize)]
             samplesSinceLastCalc ==
                 Rem(t1.sampleIndex - t1.lastPercentileCalcAt + t1.sampleSize,
                     t1.sampleSize)
         IN IF samplesSinceLastCalc > Quot(t1.sampleSize, 10) \/ ~t1.percentileCacheValid
            THEN [t1 EXCEPT !.percentileCacheValid = FALSE]
            ELSE t1

\* Process, the part under percentileMu: the reservoir and the cache's validity
ProcessSample(t, newValue) ==
    IF ~t.percentileEnabled THEN t
    ELSE LET t1 == IF Len(t.samples) < t.sampleSize
                   THEN [t EXCEPT !.samples = Append(t.samples, newValue)]
                   ELSE [t EXCEPT !.samples[t.sampleIndex + 1] = newValue,
                                  !.sampleIndex = Rem(t.sampleIndex + 1, t.sampleSize)]
             samplesSinceLastCalc ==
                 Rem(t1.sampleIndex - t1.lastPercentileCalcAt + t1.sampleSize,
                     t1.sampleSize)
         IN IF samplesSinceLastCalc > Quot(t1.sampleSize, 10) \/ ~t1.percentileCacheValid
            THEN [t1 EXCEPT !.percentileCacheValid = FALSE]
            ELSE t1

\* Process as a whole, when nothing runs between its two parts
Process(t, newValue) == ProcessSample(ProcessEMA(t, newValue), newValue)

\* Process called with each sample of a sequence in turn, by one goroutine
RECURSIVE ProcessAll(_, _)
ProcessAll(t, samples) ==
    IF samples = <<>> THEN t
    ELSE ProcessAll(Process(t, Head(samples)), Tail(samples))

\* sort.Slice with data[i] < data[j]: the ascending sort
RECURSIVE Insert(_, _)
Insert(x, q) ==
    IF q = <<>> THEN <<x>>
    ELSE IF x <= Head(q) THEN <<x>> \o q
    ELSE <<Head(q)>> \o Insert(x, Tail(q))

\* the samples left in the order of the reservoir
SortSkipped(q) == q

RECURSIVE SortAscending(_)
SortAscending(q) == IF q = <<>> THEN <<>> ELSE Insert(Head(q), SortAscending(Tail(q)))

partialSort(data, k) == SortAscending(data)

\* an index clamped to the last one
ClampIndex(i, sampleCount) == IF i >= sampleCount THEN sampleCount - 1 ELSE i

\* calculatePercentiles, were the computed triple returned and the cache
\* marked valid without the triple being stored in it
calculatePercentilesUnstored(t) ==
    LET none == [t |-> t, p50 |-> 0, p95 |-> 0, p99 |-> 0]
        sampleCount == Len(t.samples)
    IN
    IF ~t.percentileEnabled THEN none
    ELSE IF t.percentileCacheValid
    THEN [t |-> t, p50 |-> t.cachedP50, p95 |-> t.cachedP95, p99 |-> t.cachedP99]
    ELSE IF sampleCount < 10 THEN none
    ELSE IF Len(t.sortBuffer) < sampleCount THEN none
    ELSE LET p50Index == ClampIndex(Quot(sampleCount * 50, 100), sampleCount)
             p95Index == ClampIndex(Quot(sampleCount * 95, 100), sampleCount)
             p99Index == ClampIndex(Quot(sampleCount * 99, 100), sampleCount)
             sortedSamples == partialSort(t.samples, p99Index + 1)
             t1 == [t EXCEPT
                      !.sortBuffer = sortedSamples
                                     \o SubSeq(t.sortBuffer, sampleCount + 1, Len(t.sortBuffer)),
                      !.lastPercentileCalcAt = t.sampleIndex,
                      !.percentileCacheValid = TRUE]
         IN [t |-> t1, p50 |-> sortedSamples[p50Index + 1],
             p95 |-> sortedSamples[p95Index + 1], p99 |-> sortedSamples[p99Index + 1]]

\* calculatePercentiles: the tracker afterwards and the triple returned
calculatePercentiles(t) ==
    LET none == [t |-> t, p50 |-> 0, p95 |-> 0, p99 |-> 0]
        sampleCount == Len(t.samples)
    IN
    IF ~t.percentileEnabled THEN none
    ELSE IF t.percentileCacheValid
    THEN [t |-> t, p50 |-> t.cachedP50, p95 |-> t.cachedP95, p99 |-> t.cachedP99]
    ELSE IF sampleCount < 10 THEN none
    ELSE IF Len(t.sortBuffer) < sampleCount THEN none
    ELSE LET p50Index == ClampIndex(Quot(sampleCount * 50, 100), sampleCount)
             p95Index == ClampIndex(Quot(sampleCount * 95, 100), sampleCount)
             p99Index == ClampIndex(Quot(sampleCount * 99, 100), sampleCount)
             sortedSamples == partialSort(t.samples, p99Index + 1)
             t1 == [t EXCEPT
                      !.sortBuffer = sortedSamples
                                     \o SubSeq(t.sortBuffer, sampleCount + 1, Len(t.sortBuffer)),
                      !.cachedP50 = sortedSamples[p50Index + 1],
                      !.cachedP95 = sortedSamples[p95Index + 1],
                      !.cachedP99 = sortedSamples[p99Index + 1],
                      !.lastPercentileCalcAt = t.sampleIndex,
                      !.percentileCacheValid = TRUE]
         IN [t |-> t1, p50 |-> t1.cachedP50, p95 |-> t1.cachedP95, p99 |-> t1.cachedP99]

\* Value, the part under mu, were the EMA read from the window's entry
\* before the last
ValueEMAPrevious(t) ==
    [EMA |-> IF Len(t.emaSlice) < 2 THEN 0 ELSE t.emaSlice[Len(t.emaSlice) - 1],
     Slope |-> t.slope, Drift |-> t.drift,
     PercentDrift |-> t.percentDrift, P50 |-> 0, P95 |-> 0, P99 |-> 0]

\* Value, the part under mu: the Stats with its percentiles still to come
ValueEMA(t) ==
    [EMA |-> t.emaNanos, Slope |-> t.slope, Drift |-> t.drift,
     PercentDrift |-> t.percentDrift, P50 |-> 0, P95 |-> 0, P99 |-> 0]

\* Value, the part under percentileMu: the tracker afterwards and the Stats
ValuePercentiles(t, stats) ==
    LET r == calculatePercentiles(t) IN
    [t |-> r.t,
     stats |-> [stats EXCEPT !.P50 = r.p50, !.P95 = r.p95, !.P99 = r.p99]]

\* Value as a whole, when nothing runs between its two parts
Value(t) == ValuePercentiles(t, ValueEMA(t))

----------------------------------------------------------------------------
(* level.go: the classifier *)

Normal == 0
Warning == 1
Moderate == 2
Critical == 3
Emergency == 4

Level == {Normal, Warning, Moderate, Critical, Emergency}

\* DefaultThresholds, in milliseconds
DefaultThresholds ==
    [P99Emergency |-> 10 * 1000,
     P95Critical  |-> 2 * 1000,
     EMACritical  |-> 500,
     P95Moderate  |-> 1 * 1000,
     EMAWarning   |-> 300,
     SlopeWarning |-> 10]

\* LevelWithThresholds as it would be with the Moderate case of the first
\* switch written before the Critical case
LevelModerateFirst(stats, thresholds) ==
    IF stats.P95 > 0 /\ stats.P99 > 0
    THEN IF stats.P99 > thresholds.P99Emergency THEN Emergency
         ELSE IF stats.P95 > thresholds.P95Moderate THEN Moderate
         ELSE IF stats.P95 > thresholds.P95Critical /\ stats.EMA > thresholds.EMACritical
              THEN Critical
         ELSE IF stats.EMA > thresholds.EMAWarning \/ stats.Slope > thresholds.SlopeWarning
              THEN Warning
         ELSE Normal
    ELSE IF stats.Slope > Quot(5 * thresholds.SlopeWarning, 10) THEN Critical
         ELSE IF stats.Slope > Quot(3 * thresholds.SlopeWarning, 10) THEN Moderate
         ELSE IF stats.Slope > Quot(thresholds.SlopeWarning, 10) THEN Warning
         ELSE Normal

\* LevelWithThresholds as it would be if the second switch, too, looked at the
\* EMA before it settled for Normal
LevelFallbackEMA(stats, thresholds) ==
    IF stats.P95 > 0 /\ stats.P99 > 0
    THEN IF stats.P99 > thresholds.P99Emergency THEN Emergency
         ELSE IF stats.P95 > thresholds.P95Critical /\ stats.EMA > thresholds.EMACritical
              THEN Critical
         ELSE IF stats.P95 > thresholds.P95Moderate THEN Moderate
         ELSE IF stats.EMA > thresholds.EMAWarning \/ stats.Slope > thresholds.SlopeWarning
              THEN Warning
         ELSE Normal
    ELSE IF stats.Slope > Quot(5 * thresholds.SlopeWarning, 10) THEN Critical
         ELSE IF stats.Slope > Quot(3 * thresholds.SlopeWarning, 10) THEN Moderate
         ELSE IF stats.Slope > Quot(thresholds.SlopeWarning, 10) THEN Warning
         ELSE IF stats.EMA > thresholds.EMAWarning THEN Warning
         ELSE Normal

\* the two switches of the source take their first true case: IF chains
LevelWithThresholds(stats, thresholds) ==
    LET ema == stats.EMA
        slope == stats.Slope
    IN
    IF stats.P95 > 0 /\ stats.P99 > 0
    THEN IF stats.P99 > thresholds.P99Emergency THEN Emergency
         ELSE IF stats.P95 > thresholds.P95Critical /\ ema > thresholds.EMACritical
              THEN Critical
         ELSE IF stats.P95 > thresholds.P95Moderate THEN Moderate
         ELSE IF ema > thresholds.EMAWarning \/ slope > thresholds.SlopeWarning
              THEN Warning
         ELSE Normal
    ELSE IF slope > Quot(5 * thresholds.SlopeWarning, 10) THEN Critical
         ELSE IF slope > Quot(3 * thresholds.SlopeWarning, 10) THEN Moderate
         ELSE IF slope > Quot(thresholds.SlopeWarning, 10) THEN Warning
         ELSE Normal

----------------------------------------------------------------------------
(* dispatcher.go *)

NoEvent == [Target |-> 0, Value |-> 0]

\* NewDispatcher: the struct, and the goroutine of run about to enter its loop
NewDispatcher(bufSize) ==
    [inputCh |-> <<>>, bufSize |-> bufSize, droppedCount |-> 0, totalCount |-> 0]

NewWorker == [pc |-> "select", ev |-> NoEvent]

\* a channel on which no send can ever complete at once
SendNever(d, w) == FALSE

\* the send case of Emit's select, were a worker that has returned still
\* counted as a receiver
SendReadyAnyWorker(d, w) == Len(d.inputCh) < d.bufSize \/ w.pc \in {"parked", "exited"}

\* the send case of Emit's select, were the channel without a capacity
SendAlways(d, w) == TRUE

\* whether `d.inputCh <- ev` can complete at once: the buffer has room, or the
\* worker is parked in its select, ready to receive
SendReady(d, w) == Len(d.inputCh) < d.bufSize \/ w.pc = "parked"

\* Emit's select as it would be without its default case: a blocking send
SelectBlocking == FALSE

\* Emit's select has a default case
SelectDefault == TRUE

\* the channel send, were the channel a stack: the event goes to the front
SendFront(d, w, ev) ==
    IF w.pc = "parked"
    THEN [d |-> d, w |-> [pc |-> "process", ev |-> ev]]
    ELSE [d |-> [d EXCEPT !.inputCh = <<ev>> \o d.inputCh], w |-> w]

\* the channel send of Emit's select: the dispatcher and the worker afterwards
\* (a parked receiver is handed the event and woken)
Send(d, w, ev) ==
    IF w.pc = "parked"
    THEN [d |-> d, w |-> [pc |-> "process", ev |-> ev]]
    ELSE [d |-> [d EXCEPT !.inputCh = Append(d.inputCh, ev)], w |-> w]

DroppedCount(d) == d.droppedCount

TotalCount(d) == d.totalCount

\* DropRate, were the quotient returned as it is
DropRateFraction(d) ==
    IF d.totalCount = 0 THEN [num |-> 0, den |-> 1]
    ELSE [num |-> d.droppedCount, den |-> d.totalCount]

\* DropRate: float64(dropped) / float64(total) * 100, kept as the quotient
DropRate(d) ==
    IF d.totalCount = 0 THEN [num |-> 0, den |-> 1]
    ELSE [num |-> d.droppedCount * 100, den |-> d.totalCount]

----------------------------------------------------------------------------
(* The breaker on its own: any caller, any configuration *)

\* the timeouts a breaker is configured with, in ticks: none, less than
\* minTimeBetweenOps, equal to it, more than it
Timeouts == {0, 1, MinTimeBetweenOps, MinTimeBetweenOps + 1}

NoCall == [op |-> "none", ok |-> TRUE]

NoStats == [EMA |-> 0, Slope |-> 0, Drift |-> 0, PercentDrift |-> NoPercentDrift,
            P50 |-> 0, P95 |-> 0, P99 |-> 0]

NoLevel == 0 - 1

NoResponse == [status |-> "none", retryAfter |-> 0, reason |-> "none"]

\* what a request has done so far: the calls it made, by kind
NoTrace == [allow |-> 0, value |-> 0, classify |-> 0, success |-> 0, failure |-> 0,
            handler |-> 0, emit |-> 0, metrics |-> 0]

\* a caller that is not inside a call
IdleReq ==
    [pc |-> "idle", path |-> <<>>, key |-> <<>>, skip |-> FALSE, tracker |-> 0,
     gate |-> "none", stats |-> NoStats, level |-> NoLevel, start |-> 0,
     latency |-> 0, result |-> "none", response |-> NoResponse, emit |-> "none",
     trace |-> NoTrace]

NoLimits ==
    [reqs |-> Reqs, emits |-> MaxEmits, paths |-> {}, methods |-> {}, handlerTicks |-> 0, warm |-> {},
     bufSize |-> 0, spaced |-> FALSE, transports |-> {}, endTime |-> MaxTime,
     log |-> FALSE, trackers |-> MaxTrackers]

NoHist == [rej |-> <<>>, third |-> FALSE, normalRun |-> 0,
           enqueued |-> <<>>, applied |-> <<>>, dropped |-> 0,
           taken |-> 0, pending |-> 0]

\* no pure function is under study
NoProbe == [op |-> "none"]

\* the counter a call on cb may push past MaxCount
CountsBounded(cb) ==
    /\ cb.failureCount < MaxCount
    /\ cb.successCount < MaxCount

\* history: the clock at the latest change of state, and at the one before
ChangeAt(old, new, t, was) == IF new.state # old.state THEN t ELSE was

PrevChangeAt(old, new, was, before) == IF new.state # old.state THEN was ELSE before

\* the history variables after a call that took the breaker from old to new
Logged(old, new) ==
    /\ lastChangeAt' = ChangeAt(old, new, now, lastChangeAt)
    /\ prevChangeAt' = PrevChangeAt(old, new, lastChangeAt, prevChangeAt)

BreakerInit ==
    /\ now = 0
    /\ \E mf \in 1..MaxFailuresCfg, to \in Timeouts, st \in 1..MaxSuccessCfg :
          breaker = NewCircuitBreaker(mf, to, st, 0)
    /\ call = NoCall
    /\ lastChangeAt = Never
    /\ prevChangeAt = Never
    /\ trackers = <<>>
    /\ disp = NewDispatcher(0)
    /\ worker = NewWorker
    /\ cancelled = FALSE
    /\ req = [r \in Reqs |-> IdleReq]
    /\ transport = "none"
    /\ registry = <<>>
    /\ limits = NoLimits
    /\ hist = NoHist
    /\ probe = NoProbe

\* time passes
Tick ==
    /\ now < limits.endTime
    /\ \A r \in Reqs : req[r].pc = "running" => now - req[r].start < limits.handlerTicks
    /\ now' = now + 1
    /\ UNCHANGED <<breaker, call, lastChangeAt, prevChangeAt, dispatcherVars, req, pipelineVars, probe>>

CallAllow ==
    LET r == Allow(breaker, now) IN
    /\ breaker' = r.cb
    /\ call' = [op |-> "Allow", ok |-> r.ok]
    /\ Logged(breaker, r.cb)
    /\ UNCHANGED <<now, dispatcherVars, req, pipelineVars, probe>>

CallRecordSuccess ==
    /\ CountsBounded(breaker)
    /\ breaker' = RecordSuccess(breaker, now)
    /\ call' = [op |-> "RecordSuccess", ok |-> TRUE]
    /\ Logged(breaker, breaker')
    /\ UNCHANGED <<now, dispatcherVars, req, pipelineVars, probe>>

CallRecordFailure ==
    /\ CountsBounded(breaker)
    /\ breaker' = RecordFailure(breaker, now)
    /\ call' = [op |-> "RecordFailure", ok |-> TRUE]
    /\ Logged(breaker, breaker')
    /\ UNCHANGED <<now, dispatcherVars, req, pipelineVars, probe>>

CallReset ==
    /\ breaker' = Reset(breaker, now)
    /\ call' = [op |-> "Reset", ok |-> TRUE]
    /\ Logged(breaker, breaker')
    /\ UNCHANGED <<now, dispatcherVars, req, pipelineVars, probe>>

BreakerNext ==
    \/ Tick
    \/ CallAllow
    \/ CallRecordSuccess
    \/ CallRecordFailure
    \/ CallReset

BreakerSpec == BreakerInit /\ [][BreakerNext]_vars

\* the same, with time passing and Allow being called again and again
BreakerLiveSpec ==
    BreakerInit /\ [][BreakerNext]_vars /\ WF_vars(Tick) /\ WF_vars(CallAllow)

----------------------------------------------------------------------------
(* The dispatcher on its own: callers of Emit, the worker, cancellation *)

\* the trackers a dispatcher on its own delivers to
Targets == {1, 2}

\* the values emitted, in milliseconds
Values == {0, 500}

\* NewTracker with the options of the adapters' DefaultConfig, the window and
\* the reservoir cut to their smallest sizes
ModelTracker == NewTracker(100, 4, TRUE, 10)

\* the callers that are inside a call
InFlight == Cardinality({r \in Reqs : req[r].pc # "idle"})

DispatcherInit ==
    /\ now = 0
    /\ breaker = NewCircuitBreaker(1, 0, 1, 0)
    /\ call = NoCall
    /\ lastChangeAt = Never
    /\ prevChangeAt = Never
    /\ trackers = [i \in Targets |-> ModelTracker]
    /\ \E n \in 0..MaxBuf : disp = NewDispatcher(n)
    /\ worker = NewWorker
    /\ cancelled = FALSE
    /\ req = [r \in Reqs |-> IdleReq]
    /\ transport = "none"
    /\ registry = <<>>
    /\ limits = [NoLimits EXCEPT !.log = TRUE]
    /\ hist = NoHist
    /\ probe = NoProbe

\* history, kept where limits.log says so: the events sent into the channel
\* and the events handed to Process, in order, the number of events that
\* took the default case, and at the cancellation the number of events the
\* worker had received and the number still in the channel
Enqueued(ev) ==
    IF limits.log THEN [hist EXCEPT !.enqueued = Append(@, ev)] ELSE hist

Dropped ==
    IF limits.log THEN [hist EXCEPT !.dropped = @ + 1] ELSE hist

Applied(ev) ==
    IF limits.log THEN [hist EXCEPT !.applied = Append(@, ev)] ELSE hist

AtCancel ==
    IF limits.log
    THEN [hist EXCEPT !.taken = Len(hist.enqueued) - Len(disp.inputCh),
                      !.pending = Len(disp.inputCh)]
    ELSE hist

\* a caller calls Emit(target, value)
CallEmit(r) ==
    /\ req[r].pc = "idle"
    /\ disp.totalCount + InFlight < limits.emits
    /\ \E target \in Targets, value \in Values :
          req' = [req EXCEPT ![r] = [IdleReq EXCEPT !.pc = "emit",
                                                     !.tracker = target,
                                                     !.latency = value]]
    /\ UNCHANGED <<breakerVars, dispatcherVars, pipelineVars, probe>>

\* Emit: d.totalCount.Add(1)
EmitCount(r) ==
    /\ req[r].pc = "emit"
    /\ disp' = [disp EXCEPT !.totalCount = disp.totalCount + 1]
    /\ req' = [req EXCEPT ![r].pc = "send", ![r].trace.emit = @ + 1]
    /\ UNCHANGED <<breakerVars, trackers, worker, cancelled, pipelineVars, probe>>

\* Emit: the select, which sends the event or takes the default case
EmitSelect(r) ==
    /\ req[r].pc = "send"
    /\ IF SendReady(disp, worker)
       THEN LET s == Send(disp, worker,
                          [Target |-> req[r].tracker, Value |-> req[r].latency]) IN
            /\ disp' = s.d
            /\ worker' = s.w
            /\ req' = [req EXCEPT ![r].pc = "emitted", ![r].emit = "sent"]
            /\ hist' = Enqueued([Target |-> req[r].tracker, Value |-> req[r].latency])
       ELSE /\ SelectDefault
            /\ req' = [req EXCEPT ![r].pc = "drop"]
            /\ hist' = Dropped
            /\ UNCHANGED <<disp, worker>>
    /\ UNCHANGED <<breakerVars, trackers, cancelled, transport, registry, limits, probe>>

\* Emit, the default case: d.droppedCount.Add(1) (then the log line)
EmitDrop(r) ==
    /\ req[r].pc = "drop"
    /\ disp' = [disp EXCEPT !.droppedCount = disp.droppedCount + 1]
    /\ req' = [req EXCEPT ![r].pc = "emitted", ![r].emit = "dropped"]
    /\ UNCHANGED <<breakerVars, trackers, worker, cancelled, pipelineVars, probe>>

\* the step of Emit that caller r is at
EmitStep(r) == EmitCount(r) \/ EmitSelect(r) \/ EmitDrop(r)

\* Emit returned to its caller
EmitReturn(r) ==
    /\ req[r].pc = "emitted"
    /\ req' = [req EXCEPT ![r] = IdleReq]
    /\ UNCHANGED <<breakerVars, dispatcherVars, pipelineVars, probe>>

\* run: the select over ctx.Done() and inputCh; with both ready either is taken
WorkerSelect ==
    /\ worker.pc = "select"
    /\ \/ /\ cancelled
          /\ worker' = [pc |-> "exited", ev |-> NoEvent]
          /\ UNCHANGED disp
       \/ /\ disp.inputCh # <<>>
          /\ worker' = [pc |-> "process", ev |-> Head(disp.inputCh)]
          /\ disp' = [disp EXCEPT !.inputCh = Tail(disp.inputCh)]
       \/ /\ ~cancelled
          /\ disp.inputCh = <<>>
          /\ worker' = [pc |-> "parked", ev |-> NoEvent]
          /\ UNCHANGED disp
    /\ UNCHANGED <<breakerVars, trackers, cancelled, req, pipelineVars, probe>>

\* run: ev.Target.Process(ev.Value), the part under mu
WorkerProcessEMA ==
    /\ worker.pc = "process"
    /\ trackers' = [trackers EXCEPT ![worker.ev.Target] =
                        ProcessEMA(trackers[worker.ev.Target], worker.ev.Value)]
    /\ worker' = [worker EXCEPT !.pc = "sample"]
    /\ hist' = Applied(worker.ev)
    /\ UNCHANGED <<breakerVars, disp, cancelled, req, transport, registry, limits, probe>>

\* run: ev.Target.Process(ev.Value), the part under percentileMu
WorkerProcessSample ==
    /\ worker.pc = "sample"
    /\ trackers' = [trackers EXCEPT ![worker.ev.Target] =
                        ProcessSample(trackers[worker.ev.Target], worker.ev.Value)]
    /\ worker' = [pc |-> "select", ev |-> NoEvent]
    /\ UNCHANGED <<breakerVars, disp, cancelled, req, pipelineVars, probe>>

\* the context is cancelled; a worker parked in its select is woken by Done
Cancel ==
    /\ ~cancelled
    /\ cancelled' = TRUE
    /\ worker' = IF worker.pc = "parked" THEN [worker EXCEPT !.pc = "woken"] ELSE worker
    /\ hist' = AtCancel
    /\ UNCHANGED <<breakerVars, trackers, disp, req, transport, registry, limits, probe>>

\* run, were a worker woken by Done to go back to waiting for an event
WorkerWaitsOn ==
    /\ worker.pc = "woken"
    /\ worker' = [pc |-> "parked", ev |-> NoEvent]
    /\ UNCHANGED <<breakerVars, trackers, disp, cancelled, req, pipelineVars, probe>>

\* run: case <-ctx.Done(): return, for a worker woken from its select
WorkerReturn ==
    /\ worker.pc = "woken"
    /\ worker' = [pc |-> "exited", ev |-> NoEvent]
    /\ UNCHANGED <<breakerVars, trackers, disp, cancelled, req, pipelineVars, probe>>

DispatcherNext ==
    \/ \E r \in Reqs : CallEmit(r)
    \/ \E r \in Reqs : EmitCount(r)
    \/ \E r \in Reqs : EmitSelect(r)
    \/ \E r \in Reqs : EmitDrop(r)
    \/ \E r \in Reqs : EmitReturn(r)
    \/ WorkerSelect
    \/ WorkerProcessEMA
    \/ WorkerProcessSample
    \/ Cancel
    \/ WorkerReturn

DispatcherSpec == DispatcherInit /\ [][DispatcherNext]_vars

\* the same, with the worker's goroutine scheduled again and again
DispatcherLiveSpec ==
    /\ DispatcherSpec
    /\ WF_vars(WorkerSelect)
    /\ WF_vars(WorkerProcessEMA)
    /\ WF_vars(WorkerProcessSample)
    /\ WF_vars(WorkerReturn)

(* The dispatcher with a reader of its drop rate: a goroutine that calls
   DropRate again and again while the callers emit. DropRate loads the total
   counter and then the dropped counter, and Emits may run between the two. *)

NoRate == [num |-> 0, den |-> 1]

DropRateInit ==
    /\ now = 0
    /\ breaker = NewCircuitBreaker(1, 0, 1, 0)
    /\ call = NoCall
    /\ lastChangeAt = Never
    /\ prevChangeAt = Never
    /\ trackers = [i \in Targets |-> ModelTracker]
    /\ \E n \in 0..MaxBuf : disp = NewDispatcher(n)
    /\ worker = NewWorker
    /\ cancelled = FALSE
    /\ req = [r \in Reqs |-> IdleReq]
    /\ transport = "none"
    /\ registry = <<>>
    /\ limits = NoLimits
    /\ hist = NoHist
    /\ probe = [op |-> "droprate", pc |-> "idle", total |-> 0, rate |-> NoRate]

\* DropRate: total := d.totalCount.Load()
DropRateLoadTotal ==
    /\ probe.op = "droprate"
    /\ probe.pc \in {"idle", "returned"}
    /\ probe' = [probe EXCEPT !.pc = "loaded", !.total = disp.totalCount,
                              !.rate = NoRate]
    /\ UNCHANGED <<breakerVars, dispatcherVars, req, pipelineVars>>

\* DropRate: the test of total, the load of droppedCount and the return
DropRateReturn ==
    /\ probe.op = "droprate"
    /\ probe.pc = "loaded"
    /\ probe' = [probe EXCEPT !.pc = "returned", !.total = 0,
                              !.rate = DropRate([disp EXCEPT !.totalCount = probe.total])]
    /\ UNCHANGED <<breakerVars, dispatcherVars, req, pipelineVars>>

DropRateNext ==
    \/ DispatcherNext
    \/ DropRateLoadTotal
    \/ DropRateReturn

DropRateSpec == DropRateInit /\ [][DropRateNext]_vars


-----------------------------------------------------------------------------
(* http/middleware.go and grpc/interceptor.go: the admission pipeline *)

\* one tick of the clock, in milliseconds
TickMs == 1000 \div TicksPerSecond

\* thresholds that the latencies of the model can cross: a custom Thresholds
\* record, as Config.Thresholds allows
ModelThresholds ==
    [P99Emergency |-> 3 * TickMs,
     P95Critical  |-> (3 * TickMs) \div 2,
     EMACritical  |-> 2 * TickMs,
     P95Moderate  |-> TickMs,
     EMAWarning   |-> TickMs \div 2,
     SlopeWarning |-> 10]

\* Config: DefaultConfig's breaker counts and Retry-After values; the cache,
\* the tracker sizes and the breaker's timeout are custom values, and the
\* buffer size is chosen with the bounds of each specification
cfg ==
    [CacheSize                      |-> 2,
     CacheTTL                       |-> 120 * TicksPerSecond,
     Thresholds                     |-> ModelThresholds,
     SkipPaths                      |-> {<<"/", "h">>},
     CircuitBreakerMaxFailures      |-> 3,
     CircuitBreakerTimeout          |-> 1 * TicksPerSecond,
     CircuitBreakerSuccessThreshold |-> 5,
     TrackerAlpha                   |-> 100,
     TrackerWindowSize              |-> 4,
     TrackerSampleSize              |-> 10,
     RetryAfterEmergency            |-> 10,
     RetryAfterCritical             |-> 5,
     RetryAfterCircuit              |-> 30]

Transports == {"http", "grpc"}

\* the paths (HTTP) or full method names (gRPC) that requests arrive with
Paths == {<<"/", "a">>, <<"/", "b">>, <<"/", "h", "z">>}

\* strings.HasPrefix
HasPrefix(s, prefix) ==
    /\ Len(prefix) <= Len(s)
    /\ SubSeq(s, 1, Len(prefix)) = prefix

\* the loop over skipPaths / skipMethods, were its test never true
SkippedNever(path) == FALSE

\* the loop over skipPaths / skipMethods
Skipped(path) == \E skipPrefix \in cfg.SkipPaths : HasPrefix(path, skipPrefix)

\* routeKey := r.Method + " " + path; the interceptor keys by info.FullMethod
RouteKey(tr, method, path) ==
    IF tr = "http" THEN <<method, " ">> \o path ELSE path

\* the position of key in the cache's list, 0 when it is not there
RegistryIndex(reg, key) ==
    IF \E i \in 1..Len(reg) : reg[i].key = key
    THEN CHOOSE i \in 1..Len(reg) : reg[i].key = key
    ELSE 0

RegistryWithout(reg, i) == SubSeq(reg, 1, i - 1) \o SubSeq(reg, i + 1, Len(reg))

\* registry.Get: a miss when the key is absent or its entry has expired,
\* otherwise the entry moves to the front
RegistryGet(reg, key, t) ==
    LET i == RegistryIndex(reg, key) IN
    IF i = 0 \/ t > reg[i].expiresAt
    THEN [ok |-> FALSE, tracker |-> 0, reg |-> reg]
    ELSE [ok |-> TRUE, tracker |-> reg[i].tracker,
          reg |-> <<reg[i]>> \o RegistryWithout(reg, i)]

\* registry.Add, were the oldest entry never evicted
RegistryAddUnbounded(reg, key, tracker, t) ==
    LET i == RegistryIndex(reg, key)
        ent == [key |-> key, tracker |-> tracker, expiresAt |-> t + cfg.CacheTTL]
    IN IF i # 0 THEN <<ent>> \o RegistryWithout(reg, i)
       ELSE <<ent>> \o reg

\* registry.Add: an existing entry takes the new value and a new expiry and
\* moves to the front; a new entry goes to the front and the oldest is evicted
\* when the cache is over its size
RegistryAdd(reg, key, tracker, t) ==
    LET i == RegistryIndex(reg, key)
        ent == [key |-> key, tracker |-> tracker, expiresAt |-> t + cfg.CacheTTL]
    IN IF i # 0 THEN <<ent>> \o RegistryWithout(reg, i)
       ELSE LET added == <<ent>> \o reg IN
            IF cfg.CacheSize > 0 /\ Len(added) > cfg.CacheSize
            THEN SubSeq(added, 1, Len(added) - 1)
            ELSE added

\* the rejection of a request that the breaker does not allow, were the
\* retry-after hint not set
CircuitOpenBare(tr) ==
    [status     |-> IF tr = "http" THEN "503" ELSE "Unavailable",
     retryAfter |-> 0,
     reason     |-> "circuit breaker open"]

\* the rejection of a request that the breaker does not allow
CircuitOpenResponse(tr) ==
    [status     |-> IF tr = "http" THEN "503" ELSE "Unavailable",
     retryAfter |-> cfg.RetryAfterCircuit,
     reason     |-> "circuit breaker open"]

\* the rejection of a request whose endpoint is at Emergency or Critical
OverloadResponse(tr, level) ==
    [status     |-> IF tr = "http" THEN "503" ELSE "ResourceExhausted",
     retryAfter |-> IF level = Emergency THEN cfg.RetryAfterEmergency
                    ELSE cfg.RetryAfterCritical,
     reason     |-> IF level = Emergency THEN "emergency backpressure"
                    ELSE "critical backpressure"]

\* what the handler wrote: the pipeline adds nothing to it
HandlerResponse(result) == [status |-> result, retryAfter |-> 0, reason |-> "none"]

\* the calls to the metrics collector that a step of the interceptor makes;
\* the HTTP middleware has no collector
MetricsCalls(tr, n) == IF tr = "grpc" THEN n ELSE 0

\* the request past `if !circuitBreaker.Allow()`, were the test not made
AfterAllowUnchecked(q, ok, tr) ==
    [q EXCEPT !.pc = "value", !.trace.allow = @ + 1]

\* the request past the gate of a breaker that stands for the endpoints in
\* the cache at the start only is
AfterAllowOwnEndpoint(q, ok, tr) ==
    IF ok \/ q.tracker > 2
    THEN [q EXCEPT !.pc = "value", !.trace.allow = @ + 1]
    ELSE [q EXCEPT !.pc = "done", !.trace.allow = @ + 1,
                   !.response = CircuitOpenResponse(tr),
                   !.trace.metrics = @ + MetricsCalls(tr, 2)]

\* the request past `if !circuitBreaker.Allow() { ... return }`
AfterAllow(q, ok, tr) ==
    IF ok
    THEN [q EXCEPT !.pc = "value", !.trace.allow = @ + 1]
    ELSE [q EXCEPT !.pc = "done", !.trace.allow = @ + 1,
                   !.response = CircuitOpenResponse(tr),
                   !.trace.metrics = @ + MetricsCalls(tr, 2)]

\* the switch on level with Critical treated as Moderate is
SwitchLenient(level) ==
    [call  |-> IF level = Emergency THEN "RecordFailure"
               ELSE IF level = Normal THEN "RecordSuccess" ELSE "none",
     admit |-> level # Emergency]

\* switch level: the breaker call of each case, and whether the case falls
\* through to the handler
Switch(level) ==
    [call  |-> IF level \in {Emergency, Critical} THEN "RecordFailure"
               ELSE IF level = Normal THEN "RecordSuccess" ELSE "none",
     admit |-> level \notin {Emergency, Critical}]

\* what Allow did for a request
GateKind(cb, ok) ==
    IF ~ok THEN "rejected"
    ELSE IF cb.state = StateOpen THEN "halfopened"
    ELSE IF cb.state = StateHalfOpen THEN "halfopen"
    ELSE "closed"

\* the times of the successive Emergency rejections so far, the latest
\* maxFailures - 1 of them
LastRejections(rej, t) ==
    LET all == Append(rej, t) IN
    IF Len(all) > cfg.CircuitBreakerMaxFailures - 1 THEN Tail(all) ELSE all

\* whether a rejection at time t is the last of maxFailures successive
\* Emergency rejections within one second
ThirdRejection(rej, t) ==
    /\ Len(rej) = cfg.CircuitBreakerMaxFailures - 1
    /\ t - rej[1] <= TicksPerSecond

\* the successive Normal admissions through a HalfOpen breaker, counted up to
\* the threshold
NormalRun(n) ==
    IF n >= cfg.CircuitBreakerSuccessThreshold THEN n ELSE n + 1

-----------------------------------------------------------------------------
(* The pipeline as a whole: requests arrive at the middleware or at the
   interceptor and go through it step by step, beside the dispatcher's worker
   and the clock *)

\* the latencies, in ticks, that the tracker of "/a" has seen before the model
\* starts; 0 is a pipeline that has seen no request
WarmTicks == {0, 1, 2, 3, 4}

\* n calls of Process with the same value
RECURSIVE Feed(_, _, _)
Feed(t, v, n) == IF n = 0 THEN t ELSE Feed(Process(t, v), v, n - 1)

\* the tracker that Middleware makes on a miss
ConfiguredTracker ==
    NewTracker(cfg.TrackerAlpha, cfg.TrackerWindowSize, TRUE, cfg.TrackerSampleSize)

\* the requests inside the pipeline that may still reach the breaker
Gated == Cardinality({r \in Reqs : req[r].pc # "idle" /\ ~req[r].skip})

\* the requests about to make a tracker
Adding == Cardinality({r \in Reqs : req[r].pc = "add"})

\* the pipeline after construction, or after TrackerSampleSize requests to
\* "/a" that each took k ticks; lim has the bounds of the specification, and
\* the clock stops lim.endTime ticks later
PipelineInit(lim) ==
    \E k \in lim.warm, tr \in lim.transports :
        /\ now = k
        /\ breaker = NewCircuitBreaker(cfg.CircuitBreakerMaxFailures,
                                       cfg.CircuitBreakerTimeout,
                                       cfg.CircuitBreakerSuccessThreshold, 0)
        /\ call = NoCall
        /\ lastChangeAt = Never
        /\ prevChangeAt = Never
        /\ trackers = IF k = 0 THEN <<>>
                      ELSE <<Feed(ConfiguredTracker, k * TickMs, cfg.TrackerSampleSize)>>
        /\ registry = IF k = 0 THEN <<>>
                      ELSE <<[key |-> RouteKey(tr, "GET", <<"/", "a">>), tracker |-> 1,
                              expiresAt |-> cfg.CacheTTL]>>
        /\ disp = NewDispatcher(lim.bufSize)
        /\ worker = NewWorker
        /\ cancelled = FALSE
        /\ req = [r \in Reqs |-> IdleReq]
        /\ transport = tr
        /\ limits = [lim EXCEPT !.endTime = IF k + @ < MaxTime THEN k + @ ELSE MaxTime]
        /\ hist = NoHist
        /\ probe = NoProbe

\* requests to one endpoint and to a skipped path, side by side, for a second
Init ==
    PipelineInit([reqs |-> Reqs, emits |-> MaxAdmitted,
                  paths |-> {<<"/", "a">>, <<"/", "h", "z">>}, methods |-> {"GET"},
                  handlerTicks |-> MaxHandlerTicks, warm |-> WarmTicks,
                  bufSize |-> 1, spaced |-> FALSE, transports |-> Transports,
                  endTime |-> MaxTicks, log |-> FALSE,
                  trackers |-> MaxTrackers])

\* HTTP requests to an endpoint at Emergency, to a fresh endpoint and to a
\* skipped path, one at a time, each arriving when the worker has nothing to
\* do; the handlers return at once and the dispatcher's channel is unbuffered
SerialInit ==
    PipelineInit([reqs |-> {"r1"}, emits |-> MaxSerialEmits, paths |-> Paths,
                  methods |-> {"GET"},
                  handlerTicks |-> 0, warm |-> {4},
                  bufSize |-> 0, spaced |-> TRUE, transports |-> {"http"},
                  endTime |-> MaxTime, log |-> FALSE,
                  trackers |-> MaxTrackers])

\* HTTP requests with the methods POST and PUT to one path, side by side, on
\* a pipeline whose cache holds two trackers and has the tracker of GET to
\* that path in it
RegistryInit ==
    PipelineInit([reqs |-> Reqs, emits |-> MaxRegistryEmits,
                  paths |-> {<<"/", "a">>}, methods |-> {"POST", "PUT"},
                  handlerTicks |-> 0, warm |-> {4},
                  bufSize |-> 0, spaced |-> TRUE, transports |-> {"http"},
                  endTime |-> 1, log |-> FALSE,
                  trackers |-> MaxTrackers])

\* HTTP requests to one endpoint, fresh or at Moderate, side by side, with
\* handlers that take up to MaxSlowTicks ticks: a sample of that length takes
\* the endpoint from Moderate to Critical
SlowInit ==
    PipelineInit([reqs |-> Reqs, emits |-> MaxSlowEmits,
                  paths |-> {<<"/", "a">>}, methods |-> {"GET"},
                  handlerTicks |-> MaxSlowTicks, warm |-> {0, 2},
                  bufSize |-> 1, spaced |-> FALSE, transports |-> {"http"},
                  endTime |-> MaxSlowTicks, log |-> FALSE,
                  trackers |-> MaxTrackers])

\* HTTP requests to one endpoint, fresh or at Emergency, side by side, on a
\* pipeline whose context may be cancelled at any moment
CancelInit ==
    PipelineInit([reqs |-> Reqs, emits |-> MaxCancelEmits,
                  paths |-> {<<"/", "a">>}, methods |-> {"GET"},
                  handlerTicks |-> 0, warm |-> {0, 4},
                  bufSize |-> 1, spaced |-> FALSE, transports |-> {"http"},
                  endTime |-> 1, log |-> FALSE,
                  trackers |-> MaxTrackers])

\* HTTP requests to three paths, side by side, on a pipeline whose cache
\* holds the trackers of two of the paths, each fed to
\* Emergency in the time since the pipeline was made; registry, dispatcher and
\* circuitBreaker are made once, before the handler that serves every endpoint
SharedInit ==
    /\ now = 4
    /\ breaker = NewCircuitBreaker(cfg.CircuitBreakerMaxFailures,
                                   cfg.CircuitBreakerTimeout,
                                   cfg.CircuitBreakerSuccessThreshold, 0)
    /\ call = NoCall
    /\ lastChangeAt = Never
    /\ prevChangeAt = Never
    /\ trackers = [i \in {1, 2} |->
                      Feed(ConfiguredTracker, 4 * TickMs, cfg.TrackerSampleSize)]
    /\ registry = <<[key |-> RouteKey("http", "GET", <<"/", "a">>), tracker |-> 1,
                     expiresAt |-> cfg.CacheTTL],
                    [key |-> RouteKey("http", "GET", <<"/", "b">>), tracker |-> 2,
                     expiresAt |-> cfg.CacheTTL]>>
    /\ disp = NewDispatcher(1)
    /\ worker = NewWorker
    /\ cancelled = FALSE
    /\ req = [r \in Reqs |-> IdleReq]
    /\ transport = "http"
    /\ limits = [reqs |-> Reqs, emits |-> MaxSharedEmits,
                 paths |-> {<<"/", "a">>, <<"/", "b">>, <<"/", "c">>},
                 methods |-> {"GET"},
                 handlerTicks |-> 0, warm |-> {4},
                 bufSize |-> 1, spaced |-> FALSE, transports |-> {"http"},
                 endTime |-> 4 + MaxSharedTicks, log |-> FALSE,
                 trackers |-> MaxSharedTrackers]
    /\ hist = NoHist
    /\ probe = NoProbe

\* a request arrives: the prefix check; a skipped request goes straight to the
\* handler, any other makes its route key and tracker, ok := registry.Get(routeKey)
Arrive(r) ==
    /\ req[r].pc = "idle"
    /\ r \in limits.reqs
    /\ limits.spaced => disp.inputCh = <<>> /\ worker.pc \in {"select", "parked"}
    /\ \E path \in limits.paths, method \in limits.methods :
          LET skip == Skipped(path)
              key == RouteKey(transport, method, path)
              g == RegistryGet(registry, key, now)
          IN
          /\ skip \/ /\ disp.totalCount + Gated < limits.emits
                     /\ g.ok \/ Len(trackers) + Adding < limits.trackers
                     /\ breaker.failureCount + Gated < cfg.CircuitBreakerMaxFailures + MaxExtra
                     /\ breaker.successCount + Gated < cfg.CircuitBreakerSuccessThreshold + MaxExtra
          /\ registry' = IF skip THEN registry ELSE g.reg
          /\ req' = [req EXCEPT ![r] =
                        IF skip
                        THEN [IdleReq EXCEPT !.pc = "running", !.path = path,
                                             !.skip = TRUE, !.start = now,
                                             !.trace.handler = 1]
                        ELSE [IdleReq EXCEPT !.pc = IF g.ok THEN "gate" ELSE "add",
                                             !.path = path, !.key = key,
                                             !.tracker = g.tracker]]
    /\ UNCHANGED <<breakerVars, dispatcherVars, transport, limits, hist, probe>>

\* tracker = floodgate.NewTracker(...); registry.Add(routeKey, tracker)
Add(r) ==
    /\ req[r].pc = "add"
    /\ LET id == Len(trackers) + 1 IN
          /\ trackers' = Append(trackers, ConfiguredTracker)
          /\ registry' = RegistryAdd(registry, req[r].key, id, now)
          /\ req' = [req EXCEPT ![r].pc = "gate", ![r].tracker = id]
    /\ UNCHANGED <<breakerVars, disp, worker, cancelled, transport, limits, hist, probe>>

\* if !circuitBreaker.Allow() { Retry-After; reject; return }
Gate(r) ==
    /\ req[r].pc = "gate"
    /\ LET a == Allow(breaker, now)
           kind == GateKind(breaker, a.ok)
       IN /\ breaker' = a.cb
          /\ req' = [req EXCEPT ![r] =
                        AfterAllow([req[r] EXCEPT !.gate = kind], a.ok, transport)]
          /\ hist' = IF kind = "rejected" THEN NoHist
                     ELSE IF kind = "halfopened" THEN [hist EXCEPT !.normalRun = 0]
                     ELSE hist
    /\ UNCHANGED <<now, call, lastChangeAt, prevChangeAt, dispatcherVars,
                   transport, registry, limits, probe>>

\* stats := tracker.Value(), the part under mu
ReadEMA(r) ==
    /\ req[r].pc = "value"
    /\ req' = [req EXCEPT ![r].pc = "percentiles",
                          ![r].stats = ValueEMA(trackers[req[r].tracker]),
                          ![r].trace.value = @ + 1]
    /\ UNCHANGED <<breakerVars, dispatcherVars, pipelineVars, probe>>

\* stats := tracker.Value(), the part under percentileMu, and
\* level := stats.LevelWithThresholds(cfg.Thresholds)
ReadPercentiles(r) ==
    /\ req[r].pc = "percentiles"
    /\ LET v == ValuePercentiles(trackers[req[r].tracker], req[r].stats) IN
          /\ trackers' = [trackers EXCEPT ![req[r].tracker] = v.t]
          /\ req' = [req EXCEPT ![r].pc = "switch",
                                ![r].stats = v.stats,
                                ![r].level = LevelWithThresholds(v.stats, cfg.Thresholds),
                                ![r].trace.classify = @ + 1]
    /\ UNCHANGED <<breakerVars, disp, worker, cancelled, pipelineVars, probe>>

\* switch level { ... }: the breaker call of the case, then the rejection, or
\* the fall through to start := time.Now() and into the handler; stats is
\* only logged here and is dead afterwards
SwitchLevel(r) ==
    /\ req[r].pc = "switch"
    /\ LET q == req[r]
           s == Switch(q.level)
           inHalfOpen == breaker.state = StateHalfOpen
       IN /\ breaker' = CASE s.call = "RecordFailure" -> RecordFailure(breaker, now)
                          [] s.call = "RecordSuccess" -> RecordSuccess(breaker, now)
                          [] OTHER -> breaker
          /\ req' = [req EXCEPT ![r] =
                        [q EXCEPT !.pc = IF s.admit THEN "running" ELSE "done",
                                  !.stats = NoStats,
                                  !.start = IF s.admit THEN now ELSE 0,
                                  !.trace.handler = @ + (IF s.admit THEN 1 ELSE 0),
                                  !.response = IF s.admit THEN NoResponse
                                               ELSE OverloadResponse(transport, q.level),
                                  !.trace.failure = @ + (IF s.call = "RecordFailure" THEN 1 ELSE 0),
                                  !.trace.success = @ + (IF s.call = "RecordSuccess" THEN 1 ELSE 0),
                                  !.trace.metrics = @ + MetricsCalls(transport,
                                        IF ~s.admit THEN 2
                                        ELSE IF s.call = "RecordSuccess" THEN 1 ELSE 0)]]
          /\ hist' = IF q.level = Emergency
                     THEN [NoHist EXCEPT !.rej = LastRejections(hist.rej, now),
                                         !.third = ThirdRejection(hist.rej, now)]
                     ELSE IF q.level = Normal /\ inHalfOpen
                     THEN [NoHist EXCEPT !.normalRun = NormalRun(hist.normalRun)]
                     ELSE NoHist
    /\ UNCHANGED <<now, call, lastChangeAt, prevChangeAt, dispatcherVars,
                   transport, registry, limits, probe>>

\* the handler returns, with success or with an error, or it panics; a
\* skipped request ends there, a panic unwinds past Emit, and otherwise
\* latency := time.Since(start)
HandlerReturn(r) ==
    /\ req[r].pc = "running"
    /\ \E result \in {"ok", "error", "panic"} :
          req' = [req EXCEPT ![r] =
                     IF result = "panic" \/ req[r].skip
                     THEN [@ EXCEPT !.pc = "done", !.result = result,
                                    !.response = HandlerResponse(result)]
                     ELSE [@ EXCEPT !.pc = "emit", !.result = result,
                                    !.latency = (now - req[r].start) * TickMs]]
    /\ UNCHANGED <<breakerVars, dispatcherVars, pipelineVars, probe>>

\* after dispatcher.Emit: the interceptor records the request, and both return
Return(r) ==
    /\ req[r].pc = "emitted"
    /\ ~req[r].skip
    /\ req[r].key # <<>>
    /\ req' = [req EXCEPT ![r].pc = "done",
                          ![r].response = HandlerResponse(req[r].result),
                          ![r].trace.metrics = @ + MetricsCalls(transport, 1)]
    /\ UNCHANGED <<breakerVars, dispatcherVars, pipelineVars, probe>>

\* the goroutine of a finished request is free for the next one
Finish(r) ==
    /\ req[r].pc = "done"
    /\ req' = [req EXCEPT ![r] = IdleReq]
    /\ UNCHANGED <<breakerVars, dispatcherVars, pipelineVars, probe>>

\* the pipeline while its context is not cancelled: DispatcherSpec has the
\* cancellation and what the worker does with it
Next ==
    \/ Tick
    \/ \E r \in Reqs : Arrive(r)
    \/ \E r \in Reqs : Add(r)
    \/ \E r \in Reqs : Gate(r)
    \/ \E r \in Reqs : ReadEMA(r)
    \/ \E r \in Reqs : ReadPercentiles(r)
    \/ \E r \in Reqs : SwitchLevel(r)
    \/ \E r \in Reqs : HandlerReturn(r)
    \/ \E r \in Reqs : EmitCount(r)
    \/ \E r \in Reqs : EmitSelect(r)
    \/ \E r \in Reqs : EmitDrop(r)
    \/ \E r \in Reqs : Return(r)
    \/ \E r \in Reqs : Finish(r)
    \/ WorkerSelect
    \/ WorkerProcessEMA
    \/ WorkerProcessSample

\* the pipeline taking requests side by side
Spec == Init /\ [][Next]_vars

\* the pipeline taking one request at a time
SerialSpec == SerialInit /\ [][Next]_vars

\* the pipeline filling its cache of trackers
RegistrySpec == RegistryInit /\ [][Next]_vars

\* the pipeline with handlers slow enough to take an endpoint to Critical
SlowSpec == SlowInit /\ [][Next]_vars

\* the pipeline with two endpoints at Emergency and one breaker for both
SharedSpec == SharedInit /\ [][Next]_vars

\* the pipeline and the cancellation of its context: the worker returns, the
\* handler of the middleware goes on
CancelNext ==
    \/ Next
    \/ Cancel
    \/ WorkerReturn

CancelSpec == CancelInit /\ [][CancelNext]_vars

----------------------------------------------------------------------------
(* The classifier on its own: LevelWithThresholds applied to Stats and
   Thresholds drawn from small sets. The function compares Durations, which
   are integers (nanoseconds), and is indifferent to their scale. *)

PercentileValues == {0, 1, 2, 3}
EMAValues == {0, 1, 3}
SlopeValues == {0 - 1, 0, 1, 2, 3, 4, 6, 8, 11}

StatsValues ==
    {[NoStats EXCEPT !.P99 = p99, !.P95 = p95, !.EMA = ema, !.Slope = slope] :
        p99 \in PercentileValues, p95 \in PercentileValues,
        ema \in EMAValues, slope \in SlopeValues}

ThresholdsValues ==
    [P99Emergency : {1, 2}, P95Critical : {1, 2}, EMACritical : {1, 2},
     P95Moderate : {0, 2}, EMAWarning : {0, 1}, SlopeWarning : {0 - 1, 0, 7, 10}]

\* the fields of Stats that LevelWithThresholds reads, and the values of each
StatsFields == {"P99", "P95", "EMA", "Slope"}

FieldValues(f) ==
    IF f = "EMA" THEN EMAValues
    ELSE IF f = "Slope" THEN SlopeValues
    ELSE PercentileValues

ClassifierInit ==
    /\ now = 0
    /\ breaker = NewCircuitBreaker(1, 0, 1, 0)
    /\ call = NoCall
    /\ lastChangeAt = Never
    /\ prevChangeAt = Never
    /\ trackers = <<>>
    /\ disp = NewDispatcher(0)
    /\ worker = NewWorker
    /\ cancelled = FALSE
    /\ req = [r \in Reqs |-> IdleReq]
    /\ transport = "none"
    /\ registry = <<>>
    /\ limits = NoLimits
    /\ hist = NoHist
    /\ \E stats \in StatsValues, thresholds \in ThresholdsValues :
          probe = [op |-> "args", stats |-> stats, thresholds |-> thresholds,
                   level |-> NoLevel,
                   field |-> "none", raised |-> NoStats, raisedLevel |-> NoLevel]

\* LevelWithThresholds(stats, thresholds)
Classify ==
    /\ probe.op = "args"
    /\ probe' = [probe EXCEPT !.op = "classified",
                              !.level = LevelWithThresholds(probe.stats, probe.thresholds)]
    /\ UNCHANGED <<breakerVars, dispatcherVars, req, pipelineVars>>

\* LevelWithThresholds on a second Stats, equal to the first but for one
\* field, which is larger
ClassifyRaised ==
    /\ probe.op = "classified"
    /\ \E f \in StatsFields :
         \E v \in {x \in FieldValues(f) : x > probe.stats[f]} :
            LET raised == [probe.stats EXCEPT ![f] = v]
            IN probe' = [probe EXCEPT !.op = "raised", !.field = f, !.raised = raised,
                            !.raisedLevel = LevelWithThresholds(raised, probe.thresholds)]
    /\ UNCHANGED <<breakerVars, dispatcherVars, req, pipelineVars>>

ClassifierNext == Classify \/ ClassifyRaised

ClassifierSpec == ClassifierInit /\ [][ClassifierNext]_vars

----------------------------------------------------------------------------
(* A tracker on its own: one goroutine calls Process with the samples of a
   feed, in order, and another calls Value; each call takes its two locks one
   after the other, so the two parts of a Process and the two parts of a Value
   interleave. The tracker is trackers[1]. The samples are integers
   (nanoseconds); Process and Value are indifferent to their scale. *)

Opt(name, arg) == [name |-> name, arg |-> arg]

OptionValues ==
    {Opt("WithAlpha", 100), Opt("WithAlpha", 900), Opt("WithAlpha", 0),
     Opt("WithAlpha", 1000), Opt("WithWindowSize", 2), Opt("WithWindowSize", 5),
     Opt("WithPercentiles", 5), Opt("WithPercentiles", 20)}

\* the lists of at most two options, in every order
OptionLists ==
    {<<>>} \cup {<<o>> : o \in OptionValues}
           \cup {<<o1, o2>> : o1 \in OptionValues, o2 \in OptionValues}

SampleValues == {0, 7, 2000}

\* one sample, or two
ShortFeeds ==
    {<<v>> : v \in SampleValues} \cup {<<v, w>> : v \in SampleValues, w \in SampleValues}

RECURSIVE Repeat(_, _)
Repeat(v, n) == IF n <= 0 THEN <<>> ELSE <<v>> \o Repeat(v, n - 1)

\* earlier samples, then MaxSame samples of one value: from below, from
\* above, and on a fresh tracker
ConvergenceFeeds ==
    {<<0>> \o Repeat(100, MaxSame),
     <<200, 7>> \o Repeat(100, MaxSame),
     <<2000>> \o Repeat(100, MaxSame),
     Repeat(100, MaxSame)}

ConvergenceOptions ==
    {<<>>, <<Opt("WithAlpha", 500)>>, <<Opt("WithAlpha", 900)>>,
     <<Opt("WithAlpha", 250), Opt("WithWindowSize", 4)>>}

\* MaxFeed samples: rising, falling, and neither
PercentileFeeds ==
    {[i \in 1..MaxFeed |-> 10 * i],
     [i \in 1..MaxFeed |-> 10 * (MaxFeed + 1 - i)],
     [i \in 1..MaxFeed |-> 10 * ((7 * i) % 11) + 5]}

PercentileOptions ==
    {<<Opt("WithPercentiles", 10)>>,
     <<Opt("WithPercentiles", 20)>>,
     <<Opt("WithPercentiles", 22)>>,
     <<Opt("WithAlpha", 100), Opt("WithWindowSize", 4), Opt("WithPercentiles", 10)>>}

TrackerScenarios ==
    (OptionLists \X ShortFeeds)
        \cup (ConvergenceOptions \X ConvergenceFeeds)
        \cup (PercentileOptions \X PercentileFeeds)

\* no snapshot is remembered
NoSnap == [stats |-> NoStats, from |-> Never, to |-> Never, recomputed |-> FALSE,
           since |-> Never]

\* the steps that Process has taken: two for each call that returned, one for
\* a call between its locks
ProcessSteps == 2 * (probe.next - 1) + (IF probe.proc = "sample" THEN 1 ELSE 0)

\* the calls of Process that have returned
ProcessDone == probe.next - 1

TrackerInit ==
    /\ now = 0
    /\ breaker = NewCircuitBreaker(1, 0, 1, 0)
    /\ call = NoCall
    /\ lastChangeAt = Never
    /\ prevChangeAt = Never
    /\ disp = NewDispatcher(0)
    /\ worker = NewWorker
    /\ cancelled = FALSE
    /\ req = [r \in Reqs |-> IdleReq]
    /\ transport = "none"
    /\ registry = <<>>
    /\ limits = NoLimits
    /\ hist = NoHist
    /\ \E sc \in TrackerScenarios :
          /\ trackers = <<NewTrackerWith(sc[1])>>
          /\ probe = [op |-> "tracker", opts |-> sc[1], feed |-> sc[2],
                      next |-> 1, proc |-> "idle",
                      reader |-> "idle", stats |-> NoStats, from |-> Never,
                      snap |-> NoSnap, calcAt |-> Never]

\* Process(feed[next]), the part under mu; at most MaxOverlap steps of
\* Process fall within one call of Value
TrackerProcessEMA ==
    /\ probe.op = "tracker"
    /\ probe.proc = "idle"
    /\ probe.next <= Len(probe.feed)
    /\ probe.reader = "percentiles" => ProcessSteps - probe.from < MaxOverlap
    /\ trackers' = [trackers EXCEPT ![1] = ProcessEMA(@, probe.feed[probe.next])]
    /\ probe' = [probe EXCEPT !.proc = "sample", !.snap = NoSnap]
    /\ UNCHANGED <<breakerVars, disp, worker, cancelled, req, pipelineVars>>

\* Process(feed[next]), the part under percentileMu, and its return
TrackerProcessSample ==
    /\ probe.op = "tracker"
    /\ probe.proc = "sample"
    /\ probe.reader = "percentiles" => ProcessSteps - probe.from < MaxOverlap
    /\ trackers' = [trackers EXCEPT ![1] = ProcessSample(@, probe.feed[probe.next])]
    /\ probe' = [probe EXCEPT !.proc = "idle", !.next = @ + 1, !.snap = NoSnap]
    /\ UNCHANGED <<breakerVars, disp, worker, cancelled, req, pipelineVars>>

\* Value(), the part under mu
TrackerValueEMA ==
    /\ probe.op = "tracker"
    /\ probe.reader = "idle"
    /\ probe' = [probe EXCEPT !.reader = "percentiles",
                              !.stats = ValueEMA(trackers[1]),
                              !.from = ProcessSteps]
    /\ UNCHANGED <<breakerVars, dispatcherVars, req, pipelineVars>>

\* Value(), the part under percentileMu, and its return; the snapshot is
\* remembered until Process takes a step, with the Process steps at its
\* start and at its end, whether it computed the percentiles, and the number
\* of samples processed since they were last computed
TrackerValuePercentiles ==
    /\ probe.op = "tracker"
    /\ probe.reader = "percentiles"
    /\ LET r == ValuePercentiles(trackers[1], probe.stats)
           recomputed == ~trackers[1].percentileCacheValid /\ r.t.percentileCacheValid
       IN /\ trackers' = [trackers EXCEPT ![1] = r.t]
          /\ probe' = [probe EXCEPT
                          !.reader = "idle",
                          !.stats = NoStats,
                          !.from = Never,
                          !.snap = [stats |-> r.stats, from |-> probe.from,
                                    to |-> ProcessSteps, recomputed |-> recomputed,
                                    since |-> IF probe.calcAt = Never THEN Never
                                              ELSE ProcessDone - probe.calcAt],
                          !.calcAt = IF recomputed THEN ProcessDone ELSE @]
    /\ UNCHANGED <<breakerVars, disp, worker, cancelled, req, pipelineVars>>

TrackerNext ==
    \/ TrackerProcessEMA
    \/ TrackerProcessSample
    \/ TrackerValueEMA
    \/ TrackerValuePercentiles

TrackerSpec == TrackerInit /\ [][TrackerNext]_vars

(* The two locks of a tracker: goroutines call Process and Value on one
   tracker, and every Lock, RLock and Unlock is a step. held[g] is the set
   of locks that goroutine g holds; the work of a critical section is done at
   its Unlock. A reader does not pass a writer
   that waits for mu, as sync.RWMutex has it. *)

Threads == {"t1", "t2", "t3"}

\* the goroutines that hold mu, for writing or for reading, and percentileMu
HoldsMu(g) == "mu" \in probe.held[g]
HoldsPMu(g) == "percentileMu" \in probe.held[g]

\* a goroutine that holds mu for writing
WritesMu(g) == HoldsMu(g) /\ probe.kind[g] = "Process"

LockInit ==
    /\ now = 0
    /\ breaker = NewCircuitBreaker(1, 0, 1, 0)
    /\ call = NoCall
    /\ lastChangeAt = Never
    /\ prevChangeAt = Never
    /\ disp = NewDispatcher(0)
    /\ worker = NewWorker
    /\ cancelled = FALSE
    /\ req = [r \in Reqs |-> IdleReq]
    /\ transport = "none"
    /\ registry = <<>>
    /\ limits = NoLimits
    /\ hist = NoHist
    /\ \E opts \in {<<>>, <<Opt("WithPercentiles", 10)>>} :
          /\ trackers = <<NewTrackerWith(opts)>>
          /\ probe = [op |-> "locks",
                      pc |-> [g \in Threads |-> "idle"],
                      held |-> [g \in Threads |-> {}],
                      kind |-> [g \in Threads |-> "none"],
                      arg |-> [g \in Threads |-> 0],
                      calls |-> 0]

\* a goroutine calls Process(value) or Value()
LockCall(g) ==
    /\ probe.op = "locks"
    /\ probe.pc[g] = "idle"
    /\ probe.calls < MaxLockCalls
    /\ \E kind \in {"Process", "Value"}, value \in {0, 500} :
          /\ value = 0 <=> kind = "Value"
          /\ probe' = [probe EXCEPT !.pc[g] = "lockMu", !.kind[g] = kind,
                                    !.arg[g] = value, !.calls = @ + 1]
    /\ UNCHANGED <<breakerVars, dispatcherVars, req, pipelineVars>>

\* Process: t.mu.Lock()
MuLock(g) ==
    /\ probe.op = "locks"
    /\ probe.pc[g] = "lockMu"
    /\ probe.kind[g] = "Process"
    /\ \A h \in Threads : ~HoldsMu(h)
    /\ probe' = [probe EXCEPT !.pc[g] = "inMu", !.held[g] = @ \cup {"mu"}]
    /\ UNCHANGED <<breakerVars, dispatcherVars, req, pipelineVars>>

\* Value: t.mu.RLock()
MuRLock(g) ==
    /\ probe.op = "locks"
    /\ probe.pc[g] = "lockMu"
    /\ probe.kind[g] = "Value"
    /\ \A h \in Threads :
          ~WritesMu(h) /\ ~(probe.kind[h] = "Process" /\ probe.pc[h] = "lockMu")
    /\ probe' = [probe EXCEPT !.pc[g] = "inMu", !.held[g] = @ \cup {"mu"}]
    /\ UNCHANGED <<breakerVars, dispatcherVars, req, pipelineVars>>

\* Process and Value, were mu still held when percentileMu is taken
MuUnlockLate(g) ==
    /\ probe.op = "locks"
    /\ probe.pc[g] = "inMu"
    /\ trackers' = IF probe.kind[g] = "Process"
                   THEN [trackers EXCEPT ![1] = ProcessEMA(@, probe.arg[g])]
                   ELSE trackers
    /\ probe' = IF trackers[1].percentileEnabled
                THEN [probe EXCEPT !.pc[g] = "lockPMu"]
                ELSE [probe EXCEPT !.pc[g] = "idle", !.held[g] = @ \ {"mu"},
                                   !.kind[g] = "none", !.arg[g] = 0]
    /\ UNCHANGED <<breakerVars, disp, worker, cancelled, req, pipelineVars>>

\* Process: the work under mu and t.mu.Unlock(); Value: the reads under mu
\* and t.mu.RUnlock(); then on to percentileMu, or back to the caller when
\* the tracker keeps no percentiles
MuUnlock(g) ==
    /\ probe.op = "locks"
    /\ probe.pc[g] = "inMu"
    /\ trackers' = IF probe.kind[g] = "Process"
                   THEN [trackers EXCEPT ![1] = ProcessEMA(@, probe.arg[g])]
                   ELSE trackers
    /\ probe' = IF trackers[1].percentileEnabled
                THEN [probe EXCEPT !.pc[g] = "lockPMu", !.held[g] = @ \ {"mu"}]
                ELSE [probe EXCEPT !.pc[g] = "idle", !.held[g] = @ \ {"mu"},
                                   !.kind[g] = "none", !.arg[g] = 0]
    /\ UNCHANGED <<breakerVars, disp, worker, cancelled, req, pipelineVars>>

\* Process and calculatePercentiles: t.percentileMu.Lock()
PMuLock(g) ==
    /\ probe.op = "locks"
    /\ probe.pc[g] = "lockPMu"
    /\ \A h \in Threads : ~HoldsPMu(h)
    /\ probe' = [probe EXCEPT !.pc[g] = "inPMu", !.held[g] = @ \cup {"percentileMu"}]
    /\ UNCHANGED <<breakerVars, dispatcherVars, req, pipelineVars>>

\* the work under percentileMu, t.percentileMu.Unlock() and the return
PMuUnlock(g) ==
    /\ probe.op = "locks"
    /\ probe.pc[g] = "inPMu"
    /\ trackers' = IF probe.kind[g] = "Process"
                   THEN [trackers EXCEPT ![1] = ProcessSample(@, probe.arg[g])]
                   ELSE [trackers EXCEPT ![1] = calculatePercentiles(@).t]
    /\ probe' = [probe EXCEPT !.pc[g] = "idle", !.held[g] = @ \ {"percentileMu"},
                              !.kind[g] = "none", !.arg[g] = 0]
    /\ UNCHANGED <<breakerVars, disp, worker, cancelled, req, pipelineVars>>

\* the steps inside a call
LockStep(g) == MuLock(g) \/ MuRLock(g) \/ MuUnlock(g) \/ PMuLock(g) \/ PMuUnlock(g)

LockNext ==
    \/ \E g \in Threads : LockCall(g)
    \/ \E g \in Threads : MuLock(g)
    \/ \E g \in Threads : MuRLock(g)
    \/ \E g \in Threads : MuUnlock(g)
    \/ \E g \in Threads : PMuLock(g)
    \/ \E g \in Threads : PMuUnlock(g)

LockSpec == LockInit /\ [][LockNext]_vars

\* the same with the scheduler's and the mutexes' fairness: a goroutine that
\* can run does, and a goroutine that waits for a mutex gets it if the
\* mutex is free again and again (sync.Mutex hands a starving waiter the
\* lock)
LockLiveSpec ==
    /\ LockSpec
    /\ \A g \in Threads :
          /\ WF_vars(MuUnlock(g))
          /\ WF_vars(PMuUnlock(g))
          /\ SF_vars(MuLock(g))
          /\ SF_vars(MuRLock(g))
          /\ SF_vars(PMuLock(g))

----------------------------------------------------------------------------
(* Claims about the dispatcher on its own *)

\* caller r is inside Emit
InEmit(r) == req[r].pc \in {"emit", "send", "drop"}

\* C3 (never blocks): a caller inside Emit can always take its next step,
\* whatever the buffer size, the buffer's content and the worker's position.
C3_EmitEnabled == \A r \in Reqs : InEmit(r) => ENABLED EmitStep(r)

\* C3 (drop): the select of Emit enqueues the event when the channel can
\* take it at once, and otherwise leaves channel and worker alone and goes on
\* to advance the dropped counter by one.
C3_DropWhenFull ==
    [][\A r \in Reqs :
         /\ req[r].pc = "send" /\ req'[r].pc # "send" =>
               IF Len(disp.inputCh) < disp.bufSize \/ worker.pc = "parked"
               THEN /\ req'[r].pc = "emitted" /\ req'[r].emit = "sent"
                    /\ disp'.droppedCount = disp.droppedCount
                    /\ \/ disp'.inputCh = Append(disp.inputCh,
                              [Target |-> req[r].tracker, Value |-> req[r].latency])
                       \/ worker'.ev =
                              [Target |-> req[r].tracker, Value |-> req[r].latency]
               ELSE /\ req'[r].pc = "drop"
                    /\ disp' = disp /\ worker' = worker
         /\ req[r].pc = "drop" /\ req'[r].pc # "drop" =>
               /\ req'[r].pc = "emitted" /\ req'[r].emit = "dropped"
               /\ disp' = [disp EXCEPT !.droppedCount = disp.droppedCount + 1]
               /\ worker' = worker
    ]_vars

\* C3: Emit never blocks, and drops what it cannot enqueue at once
C3_EmitNeverBlocks == []C3_EmitEnabled /\ C3_DropWhenFull

\* C3 witness: with buffer size 0 and the worker gone after cancellation, an
\* Emit call has completed by dropping its event
C3_Witness ==
    /\ disp.bufSize = 0
    /\ cancelled
    /\ worker.pc = "exited"
    /\ disp.droppedCount >= 1
    /\ \E r \in Reqs : req[r].pc = "emitted" /\ req[r].emit = "dropped"

----------------------------------------------------------------------------
(* Claims about the breaker on its own *)

\* the step just taken was a call of op on the breaker (the clock stands still
\* during a call)
Called(op) == call'.op = op /\ now' = now

Elapsed == now - breaker.lastStateTime

\* C4: while Closed, Allow returns true and changes nothing; RecordSuccess
\* sets the failure count to 0; RecordFailure increments the failure count
\* and opens the breaker, stamping the time, exactly when the count has
\* reached maxFailures and minTimeBetweenOps has elapsed since the last
\* state change; otherwise the breaker stays Closed with the incremented count.
C4_ClosedBehaviour ==
    [][breaker.state = StateClosed =>
         /\ Called("Allow") => call'.ok /\ breaker' = breaker
         /\ Called("RecordSuccess") => breaker' = [breaker EXCEPT !.failureCount = 0]
         /\ Called("RecordFailure") =>
               /\ breaker'.failureCount = breaker.failureCount + 1
               /\ breaker'.successCount = breaker.successCount
               /\ IF /\ breaker.failureCount + 1 >= breaker.maxFailures
                     /\ Elapsed >= MinTimeBetweenOps
                  THEN breaker'.state = StateOpen /\ breaker'.lastStateTime = now
                  ELSE /\ breaker'.state = StateClosed
                       /\ breaker'.lastStateTime = breaker.lastStateTime
    ]_vars

\* C4 witness: a RecordFailure has just opened a Closed breaker
C4_Witness ==
    /\ call.op = "RecordFailure"
    /\ breaker.state = StateOpen
    /\ breaker.failureCount >= breaker.maxFailures
    /\ breaker.lastStateTime = now
    /\ lastChangeAt = now
    /\ now >= MinTimeBetweenOps

\* C5 (safety): while Open, an Allow made before timeout has elapsed returns
\* false and changes nothing; an Allow made when timeout or more has elapsed
\* returns true, makes the breaker HalfOpen, zeroes both counters and stamps
\* the time.
C5_OpenAllow ==
    [][breaker.state = StateOpen /\ Called("Allow") =>
         IF Elapsed < breaker.timeout
         THEN ~call'.ok /\ breaker' = breaker
         ELSE /\ call'.ok
              /\ breaker' = [breaker EXCEPT !.state = StateHalfOpen,
                                            !.failureCount = 0,
                                            !.successCount = 0,
                                            !.lastStateTime = now]
    ]_vars

\* C5 (liveness): an Open breaker on which Allow keeps being called becomes
\* HalfOpen, unless it is reset first (the clock of the model stops at
\* MaxTime, so the timeout has to end by then).
C5_OpenLeadsToHalfOpen ==
    (breaker.state = StateOpen /\ breaker.lastStateTime + breaker.timeout <= MaxTime)
        ~> (breaker.state = StateHalfOpen \/ call.op = "Reset")

\* C5: the behaviour of Allow on an Open breaker, and the liveness it gives
C5_OpenBehaviour == C5_OpenAllow /\ C5_OpenLeadsToHalfOpen

\* C5 witness: an Allow made exactly timeout after the breaker opened has
\* just made it HalfOpen
C5_Witness ==
    /\ call.op = "Allow"
    /\ call.ok
    /\ breaker.state = StateHalfOpen
    /\ breaker.timeout > 0
    /\ breaker.lastStateTime = now
    /\ lastChangeAt = now
    /\ prevChangeAt = now - breaker.timeout

\* C6: while HalfOpen, Allow returns true and changes nothing; RecordSuccess
\* increments the success counter and closes the breaker (zeroing both
\* counters, stamping the time) exactly when the counter has reached
\* successThreshold and minTimeBetweenOps has elapsed since it became
\* HalfOpen; a success that reaches the threshold earlier leaves it HalfOpen.
C6_HalfOpenBehaviour ==
    [][breaker.state = StateHalfOpen =>
         /\ Called("Allow") => call'.ok /\ breaker' = breaker
         /\ Called("RecordSuccess") =>
               IF /\ breaker.successCount + 1 >= breaker.successThreshold
                  /\ Elapsed >= MinTimeBetweenOps
               THEN breaker' = [breaker EXCEPT !.state = StateClosed,
                                               !.failureCount = 0,
                                               !.successCount = 0,
                                               !.lastStateTime = now]
               ELSE breaker' = [breaker EXCEPT
                                  !.successCount = breaker.successCount + 1]
    ]_vars

\* C6 witness: a RecordSuccess has just closed a HalfOpen breaker
C6_Witness ==
    /\ call.op = "RecordSuccess"
    /\ breaker.state = StateClosed
    /\ breaker.lastStateTime = now
    /\ lastChangeAt = now
    /\ prevChangeAt # Never
    /\ now - prevChangeAt >= MinTimeBetweenOps

\* C7: a RecordFailure made in HalfOpen less than minTimeBetweenOps after the
\* breaker became HalfOpen leaves it as it is; one made later opens it and
\* stamps the time.
C7_HalfOpenFailure ==
    [][breaker.state = StateHalfOpen /\ Called("RecordFailure") =>
         IF Elapsed < MinTimeBetweenOps
         THEN breaker' = breaker
         ELSE breaker' = [breaker EXCEPT !.state = StateOpen, !.lastStateTime = now]
    ]_vars

\* C7 witness: a RecordFailure has just re-opened a HalfOpen breaker (the
\* failure count is still the 0 that entering HalfOpen left)
C7_Witness ==
    /\ call.op = "RecordFailure"
    /\ breaker.state = StateOpen
    /\ breaker.failureCount = 0
    /\ breaker.lastStateTime = now
    /\ lastChangeAt = now

\* a state change made by Allow, RecordSuccess or RecordFailure
StateChanged == breaker'.state # breaker.state /\ call'.op # "Reset"

\* C8 as stated: any two successive state changes are at least
\* minTimeBetweenOps apart, for every configuration.
C8_Original ==
    [][StateChanged /\ lastChangeAt # Never =>
         now - lastChangeAt >= MinTimeBetweenOps]_vars

\* C8 as amended: any two successive state changes are at least
\* minTimeBetweenOps apart, for every configuration whose timeout is at
\* least minTimeBetweenOps.
C8_ChangesApart ==
    [][StateChanged /\ lastChangeAt # Never
         /\ breaker.timeout >= MinTimeBetweenOps =>
         now - lastChangeAt >= MinTimeBetweenOps]_vars

\* C8 witness: two successive state changes exactly minTimeBetweenOps apart
C8_Witness ==
    /\ breaker.timeout >= MinTimeBetweenOps
    /\ call.op # "Reset"
    /\ prevChangeAt # Never
    /\ lastChangeAt = now
    /\ lastChangeAt - prevChangeAt = MinTimeBetweenOps

----------------------------------------------------------------------------
(* Claims about the admission pipeline *)

\* the positions of a request after its switch on the level
PostSwitch == {"running", "emit", "send", "drop", "emitted", "done"}

\* request q was not skipped, passed the gate and went through the switch
Decided(q) == ~q.skip /\ q.level # NoLevel /\ q.pc \in PostSwitch

\* this step is a step of request r
StepOf(r) == req'[r] # req[r]

\* the clock since the breaker's last change of state
SinceChange == now - breaker.lastStateTime

C1_Outcome ==
    \A r \in Reqs :
        LET q == req[r] IN
        Decided(q) =>
            /\ q.trace.allow = 1
            /\ q.level \in {Emergency, Critical} =>
                  /\ q.pc = "done"
                  /\ q.response = OverloadResponse(transport, q.level)
                  /\ q.trace.handler = 0
                  /\ q.trace.failure = 1
                  /\ q.trace.success = 0
            /\ q.level \in {Warning, Moderate} =>
                  /\ q.trace.handler = 1
                  /\ q.trace.failure = 0
                  /\ q.trace.success = 0
            /\ q.level = Normal =>
                  /\ q.trace.handler = 1
                  /\ q.trace.failure = 0
                  /\ q.trace.success = 1
            /\ q.pc = "done" /\ q.trace.handler = 1 =>
                  /\ q.result \in {"ok", "error", "panic"}
                  /\ q.response = HandlerResponse(q.result)

C1_BreakerCalls ==
    [][\A r \in Reqs :
          StepOf(r) /\ ~req[r].skip =>
              /\ req[r].pc = "switch" =>
                    breaker' = CASE req[r].level \in {Emergency, Critical} ->
                                        RecordFailure(breaker, now)
                                 [] req[r].level = Normal -> RecordSuccess(breaker, now)
                                 [] OTHER -> breaker
              /\ req[r].pc \in PostSwitch => breaker' = breaker]_vars

\* C1 (the level decides): a request that was not skipped and passed the gate
\* is rejected, with recordFailure called once and the handler not invoked,
\* when its level is Emergency or Critical; goes to the handler with no call
\* to the breaker when it is Warning or Moderate; goes to the handler with
\* recordSuccess called once when it is Normal; and no step after the switch,
\* whatever the handler returns, changes the breaker.
C1_LevelDecides == []C1_Outcome /\ C1_BreakerCalls

\* a Normal request whose handler returned an error, recordSuccess called once
C1_Witness ==
    \E r \in Reqs :
        /\ Decided(req[r])
        /\ req[r].pc = "done"
        /\ req[r].level = Normal
        /\ req[r].result = "error"
        /\ req[r].trace.success = 1

C2_Rejected ==
    \A r \in Reqs :
        LET q == req[r] IN
        q.gate = "rejected" =>
            /\ q.pc = "done"
            /\ q.response = CircuitOpenResponse(transport)
            /\ q.level = NoLevel
            /\ q.stats = NoStats
            /\ q.trace.value = 0
            /\ q.trace.classify = 0
            /\ q.trace.success = 0
            /\ q.trace.failure = 0
            /\ q.trace.handler = 0
            /\ q.trace.emit = 0

C2_NothingElse ==
    [][\A r \in Reqs :
          StepOf(r) /\ req[r].pc = "gate" /\ ~Allow(breaker, now).ok =>
              /\ req'[r].gate = "rejected"
              /\ breaker' = breaker
              /\ UNCHANGED <<trackers, disp, worker>>]_vars

\* C2 (the gate comes first): a request for which Allow returns false is
\* rejected as circuit-open at once: its handler is not invoked, its tracker
\* is neither read nor classified, neither RecordSuccess nor RecordFailure is
\* called, nothing is emitted, and the breaker, the trackers and the
\* dispatcher are as they were.
C2_GateFirst == []C2_Rejected /\ C2_NothingElse

\* a request rejected at the gate though its endpoint would classify as Normal
C2_Witness ==
    \E r \in Reqs :
        /\ req[r].gate = "rejected"
        /\ req[r].pc = "done"
        /\ LevelWithThresholds(Value(trackers[req[r].tracker]).stats, cfg.Thresholds) = Normal

\* request q is at its switch with the level Emergency
EmergencyRejection(q) == q.pc = "switch" /\ q.level = Emergency

\* this step is request r's rejection at Emergency level, the last of
\* maxFailures successive ones within one second
ThirdRejectionOf(r) ==
    StepOf(r) /\ EmergencyRejection(req[r]) /\ ThirdRejection(hist.rej, now)

\* this step is the gate of the request that arrives next after such a
\* rejection has left the breaker Open
NextArrivalAt(r) ==
    StepOf(r) /\ req[r].pc = "gate" /\ hist.third /\ breaker.state = StateOpen

\* request r leaves the gate rejected as circuit-open, unclassified
RejectedCircuitOpen(r) ==
    /\ req'[r].pc = "done"
    /\ req'[r].gate = "rejected"
    /\ req'[r].response = CircuitOpenResponse(transport)
    /\ req'[r].response.retryAfter = 30
    /\ req'[r].level = NoLevel
    /\ req'[r].trace.classify = 0

\* C9 as the spec states it: the third of three successive Emergency
\* rejections within one second leaves the breaker Open, and the arrival after
\* it is rejected as circuit-open
C9_Original ==
    [][\A r \in Reqs :
          /\ ThirdRejectionOf(r) => breaker'.state = StateOpen
          /\ NextArrivalAt(r) => RejectedCircuitOpen(r)]_vars

\* C9 (three rejections open the breaker), with what the code adds: with
\* maxFailures = 3, the third of three successive Emergency rejections within
\* one second leaves the breaker Open when at least minTimeBetweenOps has
\* passed since the breaker's last change of state, and then the next arrival
\* that reaches the gate before the timeout has passed is rejected as
\* circuit-open with Retry-After 30, unclassified.
C9_ThreeRejectionsOpen ==
    [][\A r \in Reqs :
          /\ ThirdRejectionOf(r) /\ SinceChange >= breaker.minTimeBetweenOps =>
                breaker'.state = StateOpen
          /\ NextArrivalAt(r) /\ SinceChange < breaker.timeout =>
                RejectedCircuitOpen(r)]_vars

\* the third rejection has just opened the breaker
C9_Witness ==
    \E r \in Reqs :
        /\ req[r].pc = "done"
        /\ req[r].level = Emergency
        /\ hist.third
        /\ breaker.state = StateOpen
        /\ breaker.failureCount = cfg.CircuitBreakerMaxFailures
        /\ breaker.lastStateTime = now

\* this step is the gate of a request that finds the breaker Open with its
\* timeout passed
ArrivalAfterTimeout(r) ==
    /\ StepOf(r)
    /\ req[r].pc = "gate"
    /\ breaker.state = StateOpen
    /\ SinceChange >= breaker.timeout

\* this step is the switch of the request that made the breaker HalfOpen
SwitchAfterTimeout(r) ==
    StepOf(r) /\ req[r].pc = "switch" /\ req[r].gate = "halfopened"

\* this step is the switch of a Normal request that makes it successThreshold
\* successive Normal requests through the HalfOpen breaker
FifthNormal(r) ==
    /\ StepOf(r)
    /\ req[r].pc = "switch"
    /\ hist'.normalRun = cfg.CircuitBreakerSuccessThreshold

\* C10 as the spec states it: the arrival after the timeout goes to its
\* handler, and the fifth successive Normal request closes the breaker
C10_Original ==
    [][\A r \in Reqs :
          /\ ArrivalAfterTimeout(r) =>
                req'[r].gate = "halfopened" /\ breaker'.state = StateHalfOpen
          /\ SwitchAfterTimeout(r) => req'[r].pc = "running"
          /\ FifthNormal(r) => breaker'.state = StateClosed]_vars

\* C10 (recovery), with what the code adds: the request that arrives at an
\* Open breaker once the timeout has passed makes the breaker HalfOpen and
\* passes the gate; it goes to its handler unless its own level is Critical
\* or Emergency; and the fifth (successThreshold = 5) of five successive
\* Normal requests through the HalfOpen breaker leaves the breaker Closed
\* when at least minTimeBetweenOps has passed since it became HalfOpen.
C10_Recovery ==
    [][\A r \in Reqs :
          /\ ArrivalAfterTimeout(r) =>
                req'[r].gate = "halfopened" /\ breaker'.state = StateHalfOpen
          /\ SwitchAfterTimeout(r) =>
                (req'[r].pc = "running" <=> req[r].level \notin {Critical, Emergency})
          /\ FifthNormal(r) /\ SinceChange >= breaker.minTimeBetweenOps =>
                breaker'.state = StateClosed]_vars

\* the fifth successive Normal request has just closed the breaker
C10_Witness ==
    /\ hist.normalRun = cfg.CircuitBreakerSuccessThreshold
    /\ breaker.state = StateClosed
    /\ breaker.lastStateTime = now
    /\ \E r \in Reqs : req[r].pc = "running" /\ req[r].level = Normal

----------------------------------------------------------------------------
(* Claims about the classifier *)

Classified == probe.op \in {"classified", "raised"}

PercentilesAvailable(stats) == stats.P95 > 0 /\ stats.P99 > 0

\* the rules of the first switch, one by one
RuleEmergency == probe.stats.P99 > probe.thresholds.P99Emergency
RuleCritical ==
    /\ probe.stats.P95 > probe.thresholds.P95Critical
    /\ probe.stats.EMA > probe.thresholds.EMACritical
RuleModerate == probe.stats.P95 > probe.thresholds.P95Moderate
RuleWarning ==
    \/ probe.stats.EMA > probe.thresholds.EMAWarning
    \/ probe.stats.Slope > probe.thresholds.SlopeWarning

\* C11: for every Stats with P95 > 0 and P99 > 0 and every Thresholds, the
\* level is that of the first rule that matches, in the order Emergency,
\* Critical, Moderate, Warning, and Normal when none matches
C11_FirstMatch ==
    (Classified /\ PercentilesAvailable(probe.stats)) =>
        /\ (probe.level = Emergency) = RuleEmergency
        /\ (probe.level = Critical) = (~RuleEmergency /\ RuleCritical)
        /\ (probe.level = Moderate) = (~RuleEmergency /\ ~RuleCritical /\ RuleModerate)
        /\ (probe.level = Warning) =
              (~RuleEmergency /\ ~RuleCritical /\ ~RuleModerate /\ RuleWarning)
        /\ (probe.level = Normal) =
              (~RuleEmergency /\ ~RuleCritical /\ ~RuleModerate /\ ~RuleWarning)

\* a Stats that matches the Critical rule and the Moderate rule and not the
\* Emergency rule has been classified
C11_Witness ==
    /\ Classified
    /\ PercentilesAvailable(probe.stats)
    /\ ~RuleEmergency /\ RuleCritical /\ RuleModerate /\ RuleWarning
    /\ probe.level = Critical

\* the level that the slope alone gives when it is compared with the
\* fractions 0.5, 0.3 and 0.1 of SlopeWarning as real numbers
SlopeLevel(slope, slopeWarning) ==
    IF 10 * slope > 5 * slopeWarning THEN Critical
    ELSE IF 10 * slope > 3 * slopeWarning THEN Moderate
    ELSE IF 10 * slope > slopeWarning THEN Warning
    ELSE Normal

\* the level that the slope alone gives when it is compared with 5/10, 3/10
\* and 1/10 of SlopeWarning as integer division gives them, rounded towards 0
SlopeLevelTruncated(slope, slopeWarning) ==
    IF slope > Quot(5 * slopeWarning, 10) THEN Critical
    ELSE IF slope > Quot(3 * slopeWarning, 10) THEN Moderate
    ELSE IF slope > Quot(slopeWarning, 10) THEN Warning
    ELSE Normal

PercentilesZero == probe.stats.P95 = 0 \/ probe.stats.P99 = 0

\* C12 as stated: when P95 or P99 is 0 the level is Critical when Slope >
\* 0.5 SlopeWarning, else Moderate when Slope > 0.3 SlopeWarning, else Warning
\* when Slope > 0.1 SlopeWarning, else Normal, whatever the other fields are
C12_Original ==
    (Classified /\ PercentilesZero) =>
        probe.level = SlopeLevel(probe.stats.Slope, probe.thresholds.SlopeWarning)

\* C12, amended: when P95 or P99 is 0 the level depends on Slope and
\* SlopeWarning alone, the slope being compared with 5/10, 3/10 and 1/10 of
\* SlopeWarning rounded towards zero; for SlopeWarning >= 0 that is the
\* comparison with 0.5, 0.3 and 0.1 of SlopeWarning
C12_SlopeAlone ==
    (Classified /\ PercentilesZero) =>
        /\ probe.level =
              SlopeLevelTruncated(probe.stats.Slope, probe.thresholds.SlopeWarning)
        /\ probe.thresholds.SlopeWarning >= 0 =>
              probe.level = SlopeLevel(probe.stats.Slope, probe.thresholds.SlopeWarning)

\* a Stats without percentiles whose EMA is above both EMA thresholds and
\* whose slope lies between 0.3 and 0.5 of a SlopeWarning that 10 does not
\* divide has been classified Moderate
C12_Witness ==
    /\ Classified
    /\ PercentilesZero
    /\ probe.stats.EMA > probe.thresholds.EMACritical
    /\ probe.stats.EMA > probe.thresholds.EMAWarning
    /\ probe.thresholds.SlopeWarning = 7
    /\ probe.stats.Slope = 3
    /\ probe.level = Moderate

Raised == probe.op = "raised"

\* C13 as stated: for fixed thresholds and two Stats equal except that
\* exactly one of P99, P95, EMA, Slope is larger in the second, the level of
\* the second is never lower than the level of the first
C13_Original == Raised => probe.raisedLevel >= probe.level

\* C13, amended: the same, for two Stats that are classified by the same
\* switch: percentiles available (P95 > 0 and P99 > 0) in both or in neither
C13_MonotoneWithinSwitch ==
    (Raised /\ PercentilesAvailable(probe.stats) = PercentilesAvailable(probe.raised))
        => probe.raisedLevel >= probe.level

\* both Stats have percentiles, the larger P95 of the second moves it from
\* the Warning rule to a higher one
C13_Witness ==
    /\ Raised
    /\ PercentilesAvailable(probe.stats)
    /\ PercentilesAvailable(probe.raised)
    /\ probe.field = "P95"
    /\ probe.level = Warning
    /\ probe.raisedLevel > Warning

----------------------------------------------------------------------------
(* Claims about the requests that the pipeline skips, and about what it does
   after the handler *)

\* the endpoint starts with one of the configured skip prefixes
MatchesSkipPrefix(path) ==
    \E prefix \in cfg.SkipPaths :
        Len(prefix) <= Len(path) /\ \A i \in 1..Len(prefix) : path[i] = prefix[i]

\* C14: a request whose endpoint matches a skip prefix goes straight to the
\* handler and ends with the handler's result unchanged; none of its steps
\* changes the registry, the trackers, the breaker, the dispatcher or its
\* worker, and it calls nothing but the handler: no metrics, no Emit
C14_SkipBypasses ==
    [][\A r \in Reqs :
          (StepOf(r) /\ req'[r].pc # "idle" /\ MatchesSkipPrefix(req'[r].path)) =>
              /\ UNCHANGED <<registry, trackers, breaker, disp, worker>>
              /\ req'[r].skip
              /\ req'[r].pc \in {"running", "done"}
              /\ req'[r].key = <<>> /\ req'[r].tracker = 0
              /\ req'[r].trace = [NoTrace EXCEPT !.handler = 1]
              /\ req'[r].pc = "done" =>
                    /\ req'[r].result \in {"ok", "error", "panic"}
                    /\ req'[r].response =
                          [status |-> req'[r].result, retryAfter |-> 0, reason |-> "none"]
     ]_vars

\* a skipped request has ended with the error of its handler while the
\* breaker is open
C14_Witness ==
    /\ breaker.state = StateOpen
    /\ \E r \in Reqs :
          /\ req[r].skip
          /\ req[r].pc = "done"
          /\ req[r].result = "error"

----------------------------------------------------------------------------
(* Claims about the delivery of events and about the counters *)

\* sequence s is the beginning of sequence t
IsPrefix(s, t) == Len(s) <= Len(t) /\ SubSeq(t, 1, Len(s)) = s

\* the events of sequence s for tracker i
ForTarget(s, i) == SelectSeq(s, LAMBDA ev : ev.Target = i)

\* the event that the worker has received and not yet handed to Process
InHand == IF worker.pc = "process" THEN <<worker.ev>> ELSE <<>>

\* the callers between the two steps of Emit named
CallersAt(pcs) == Cardinality({r \in Reqs : req[r].pc \in pcs})

\* C15: the events that the worker has handed to a tracker's Process are, in
\* order, the first of the events enqueued for that tracker; every enqueued
\* event is applied, in the worker's hand or still in the channel, so none is
\* applied twice; the events that were dropped are not among them
C15_InOrderOnce ==
    /\ \A i \in Targets :
          IsPrefix(ForTarget(hist.applied, i), ForTarget(hist.enqueued, i))
    /\ hist.enqueued = hist.applied \o InHand \o disp.inputCh
    /\ Len(hist.enqueued) + hist.dropped + CallersAt({"send"}) = disp.totalCount

\* two events with different values have been applied to one tracker, and
\* an event emitted between them was dropped
C15_Witness ==
    /\ Len(hist.applied) = 2
    /\ hist.applied[1].Target = hist.applied[2].Target
    /\ hist.applied[1].Value # hist.applied[2].Value
    /\ hist.dropped = 1
    /\ disp.totalCount = 3

\* no call of Emit is between its first and its last step
Quiescent == CallersAt({"emit", "send", "drop"}) = 0

\* the channel is full: its buffer has no room and no receiver is waiting
ChannelFull == Len(disp.inputCh) >= disp.bufSize /\ worker.pc # "parked"

\* C16 as stated: a call of Emit adds one to the total counter exactly when
\* its event is enqueued and one to the dropped counter exactly when its
\* event is dropped, so that it changes one counter
C16_Original ==
    Quiescent =>
        /\ disp.totalCount = Len(hist.enqueued)
        /\ disp.droppedCount = hist.dropped

\* C16, amended: every call of Emit adds one to the total counter, before
\* its select and whether its event is then enqueued or dropped; it adds one
\* to the dropped counter if and only if the channel was full at the select
\* and the event was dropped
C16_TotalCountsAll ==
    /\ [](/\ disp.totalCount = Len(hist.enqueued) + hist.dropped + CallersAt({"send"})
          /\ disp.droppedCount = hist.dropped - CallersAt({"drop"}))
    /\ [][\A r \in Reqs :
            (StepOf(r) /\ req[r].pc = "send") =>
                /\ (req'[r].pc = "drop") = ChannelFull
                /\ (req'[r].emit = "sent") = ~ChannelFull
                /\ UNCHANGED <<disp.totalCount, disp.droppedCount>>
         ]_vars

\* after three calls of Emit, one of which found the channel full, the total
\* counter is 3 and the dropped counter is 1
C16_Witness ==
    /\ Quiescent
    /\ disp.totalCount = 3
    /\ disp.droppedCount = 1
    /\ Len(hist.enqueued) = 2

----------------------------------------------------------------------------
(* Claims about the samples that the pipeline emits *)

\* the pipeline, not the skip loop, passed request q to the handler
Admitted(q) == ~q.skip /\ q.trace.handler = 1

\* request q has ended without the handler: the gate or the switch rejected it
Rejected(q) == ~q.skip /\ q.pc = "done" /\ q.trace.handler = 0

\* the event that a caller at Emit's select sends
EventOf(q) == [Target |-> q.tracker, Value |-> q.latency]

\* what Process writes of a tracker (Value writes the percentile cache and
\* the sort buffer, and nothing of this)
Processed(t) ==
    <<t.emaSlice, t.emaNanos, t.processCount, t.slope, t.drift, t.percentDrift,
      t.samples, t.sampleIndex>>

\* only the worker calls Process, and only with the event it received;
\* the worker receives only what a caller of Emit sent: from the channel, or
\* from the caller's hand when it was parked; a request calls Emit after its
\* handler, with the tracker that it found in the registry under its key, or
\* that it created and put there
TrackerWrites ==
    [][/\ Len(trackers') >= Len(trackers)
       /\ \A i \in DOMAIN trackers' :
            IF i \in DOMAIN trackers
            THEN Processed(trackers'[i]) # Processed(trackers[i]) =>
                    /\ worker.pc \in {"process", "sample"}
                    /\ worker.ev.Target = i
                    /\ worker'.pc # worker.pc
            ELSE Processed(trackers'[i]) = Processed(ConfiguredTracker)
       /\ (worker'.ev # worker.ev /\ worker'.ev # NoEvent) =>
            \/ disp.inputCh # <<>> /\ worker'.ev = Head(disp.inputCh)
            \/ \E r \in Reqs : /\ req[r].pc = "send" /\ req'[r].emit = "sent"
                                /\ worker'.ev = EventOf(req[r])
       /\ \A r \in Reqs :
            (StepOf(r) /\ ~req'[r].skip) =>
                /\ (req[r].pc \in {"idle", "add"} /\ req'[r].pc = "gate") =>
                      /\ req'[r].tracker \in DOMAIN trackers'
                      /\ registry'[1].key = req'[r].key
                      /\ registry'[1].tracker = req'[r].tracker
                /\ (req[r].pc \notin {"idle", "add", "done"}) =>
                      /\ req'[r].key = req[r].key
                      /\ req'[r].tracker = req[r].tracker
                /\ req[r].pc = "emit" =>
                      /\ Admitted(req[r])
                      /\ req[r].result \in {"ok", "error"}
                /\ (req[r].pc = "send" /\ req'[r].emit = "sent") =>
                      \/ disp'.inputCh = Append(disp.inputCh, EventOf(req[r]))
                      \/ worker.pc = "parked" /\ worker'.ev = EventOf(req[r])
      ]_vars

\* the calls of Emit that a request has made when it ends: one when it was
\* admitted and its handler returned, none when it was rejected or skipped
EmitsOfReturned ==
    \A r \in Reqs :
        LET q == req[r] IN
        q.pc = "done" =>
            /\ (Admitted(q) /\ q.result # "panic") =>
                  q.trace.emit = 1 /\ q.emit \in {"sent", "dropped"}
            /\ (Rejected(q) \/ q.skip) => q.trace.emit = 0 /\ q.emit = "none"

\* C18, but for the handlers that panic: Process is called by the worker
\* alone, on events sent by Emit; a request that was admitted and whose
\* handler returned has called Emit once, after the handler, with the tracker
\* of its key; a rejected or skipped request has not called it
C18_ReturnedHandlers == []EmitsOfReturned /\ TrackerWrites

\* C18 as stated: every request admitted to the handler has called Emit
\* exactly once when it ends, and a rejected or skipped request not at all
C18_Original ==
    \A r \in Reqs :
        LET q == req[r] IN
        q.pc = "done" =>
            /\ Admitted(q) => q.trace.emit = 1
            /\ (Rejected(q) \/ q.skip) => q.trace.emit = 0

\* an admitted request whose handler panicked has ended without Emit, after
\* another admitted request whose handler returned had its sample applied
C18_Witness ==
    /\ \E r \in Reqs :
          /\ Admitted(req[r])
          /\ req[r].pc = "done"
          /\ req[r].result = "panic"
          /\ req[r].trace.emit = 0
    /\ disp.totalCount = 1
    /\ worker.pc = "sample"

\* the handler of request q failed
HandlerFailed(q) == q.result \in {"error", "panic"}

\* C19 as stated: when the handler of an admitted request returns an error
\* or panics, the request ends with one sample emitted and with the
\* handler's failure as its outcome
C19_Original ==
    \A r \in Reqs :
        LET q == req[r] IN
        (q.pc = "done" /\ Admitted(q) /\ HandlerFailed(q)) =>
            /\ q.trace.emit = 1
            /\ q.emit \in {"sent", "dropped"}
            /\ q.response = [status |-> q.result, retryAfter |-> 0, reason |-> "none"]

\* C19, for the handlers that return an error: the latency is the time the
\* handler took, one sample is emitted, and the error is passed on
C19_ErrorReturned ==
    \A r \in Reqs :
        LET q == req[r] IN
        (q.pc = "done" /\ Admitted(q) /\ q.result = "error") =>
            /\ q.trace.emit = 1
            /\ q.emit \in {"sent", "dropped"}
            /\ q.latency \in {n * TickMs : n \in 0..limits.handlerTicks}
            /\ q.response = [status |-> "error", retryAfter |-> 0, reason |-> "none"]

\* the handler of an admitted request took a tick and panicked, and the
\* request has ended with the panic as its outcome and no sample
C19_Witness ==
    \E r \in Reqs :
        LET q == req[r] IN
        /\ q.pc = "done"
        /\ Admitted(q)
        /\ q.result = "panic"
        /\ q.response.status = "panic"
        /\ now > q.start
        /\ q.trace.emit = 0
        /\ q.latency = 0

----------------------------------------------------------------------------
(* Claims about the retry-after hint *)

----------------------------------------------------------------------------
(* Claims about a tracker on its own *)

\* a call of Value has returned and Process has not taken a step since
Snapped == probe.op = "tracker" /\ probe.snap # NoSnap

\* the remembered call of Value began after n calls of Process had returned
\* and ended before the next one began
SnappedAfter(n) == Snapped /\ probe.snap.from = 2 * n /\ probe.snap.to = 2 * n

\* C21: whatever the options, a Value after exactly one Process(s) on a
\* fresh tracker returns EMA = s, Slope = 0, Drift = 0, PercentDrift = 0 and
\* P50 = P95 = P99 = 0
C21_FirstSample ==
    SnappedAfter(1) =>
        probe.snap.stats =
            [EMA |-> probe.feed[1], Slope |-> 0, Drift |-> 0,
             PercentDrift |-> [num |-> 0, den |-> 1],
             P50 |-> 0, P95 |-> 0, P99 |-> 0]

\* a tracker made with WithPercentiles and then WithAlpha has processed the
\* sample 2000 and Value has returned an EMA of 2000
C21_Witness ==
    /\ SnappedAfter(1)
    /\ Len(probe.opts) = 2
    /\ probe.opts[1].name = "WithPercentiles"
    /\ probe.opts[2].name = "WithAlpha"
    /\ probe.feed[1] = 2000
    /\ probe.snap.stats.EMA = 2000

\* the feed ends with MaxSame samples of one value, and Value was called
\* after the last of them
Converged ==
    /\ probe.op = "tracker"
    /\ Len(probe.feed) >= MaxSame
    /\ SnappedAfter(Len(probe.feed))

\* the value of the last MaxSame samples, and the samples before them
SameValue == probe.feed[Len(probe.feed)]
EarlierSamples == SubSeq(probe.feed, 1, Len(probe.feed) - MaxSame)

\* the EMA before the first of the MaxSame samples
EMABefore == ProcessAll(NewTrackerWith(probe.opts), EarlierSamples).emaNanos

C23_PercentilesOrdered ==
    Snapped =>
        /\ probe.snap.stats.P50 <= probe.snap.stats.P95
        /\ probe.snap.stats.P95 <= probe.snap.stats.P99

\* more than 10 samples are in, Process took a step while Value ran, and
\* Value returned three different percentiles from the cache
C23_Witness ==
    /\ Snapped
    /\ trackers[1].percentileEnabled
    /\ Len(trackers[1].samples) > 10
    /\ probe.snap.from < probe.snap.to
    /\ ~probe.snap.recomputed
    /\ 0 < probe.snap.stats.P50
    /\ probe.snap.stats.P50 < probe.snap.stats.P95
    /\ probe.snap.stats.P95 < probe.snap.stats.P99

\* the calls of Process that had returned when the remembered Value
\* returned, and when the percentiles were last computed before it
DoneAtSnap == probe.snap.to \div 2
DoneAtCalc == DoneAtSnap - probe.snap.since

\* a Value before the remembered one computed the percentiles
ComputedBefore == Snapped /\ probe.snap.since # Never

\* the samples since then that replaced a sample of a full reservoir
Overwrites ==
    LET full == IF DoneAtCalc > trackers[1].sampleSize
                THEN DoneAtCalc ELSE trackers[1].sampleSize
    IN IF DoneAtSnap > full THEN DoneAtSnap - full ELSE 0

\* C24 as stated: after a Value that computed the percentiles and exactly
\* K/10 samples, the next Value computes them again; after K/10 - 1 samples
\* it returns the cached triple
C24_Original ==
    ComputedBefore =>
        /\ probe.snap.since = trackers[1].sampleSize \div 10 => probe.snap.recomputed
        /\ probe.snap.since = trackers[1].sampleSize \div 10 - 1 => ~probe.snap.recomputed

\* C24, what Process and Value do: after a Value that computed the
\* percentiles the next Value computes them again exactly when more than
\* K/10 samples have since replaced samples of the full reservoir; samples
\* added while the reservoir fills do not count
C24_RecomputesAfterOverwrites ==
    ComputedBefore =>
        (probe.snap.recomputed <=> Overwrites > trackers[1].sampleSize \div 10)

\* a reservoir of 20: the percentiles were computed from 10 samples, 10
\* more have been processed, and Value returns the cached triple
C24_Witness ==
    /\ ComputedBefore
    /\ trackers[1].sampleSize = 20
    /\ DoneAtCalc = 10
    /\ probe.snap.since = 10
    /\ ~probe.snap.recomputed

\* a full reservoir of 20: K/10 samples replace old ones and Value returns
\* the cached triple, one more and it computes
C24_AtThreshold ==
    /\ ComputedBefore
    /\ trackers[1].sampleSize = 20
    /\ DoneAtCalc >= 20
    /\ probe.snap.since = 2
    /\ ~probe.snap.recomputed

C24_PastThreshold ==
    /\ ComputedBefore
    /\ trackers[1].sampleSize = 20
    /\ DoneAtCalc >= 20
    /\ probe.snap.since = 3
    /\ probe.snap.recomputed

\* Value returns, and Process has taken no step since the call of Value
\* before this one began
SecondValue ==
    /\ Snapped
    /\ probe.snap.from = probe.snap.to
    /\ probe.reader = "percentiles"
    /\ probe'.reader = "idle"

\* C25: of two calls of Value with no step of Process from the start of
\* the first to the end of the second, the second returns the Stats that
\* the first returned, whether the first computed the percentiles or not
C25_ValueIdempotent ==
    [][SecondValue => (Snapped' /\ probe'.snap.stats = probe.snap.stats)]_vars

\* Value has returned percentiles from the cache that a Value before it
\* computed, and no step of Process lies between the two
C25_Witness ==
    /\ ComputedBefore
    /\ probe.snap.from = probe.snap.to
    /\ probe.snap.to % 2 = 0
    /\ probe.snap.since = 0
    /\ ~probe.snap.recomputed
    /\ probe.snap.stats.P50 > 0
    /\ probe.snap.stats.Slope # 0

\* the tracker after the first m samples of the feed, each processed whole
AfterSamples(m) == ProcessAll(NewTrackerWith(probe.opts), SubSeq(probe.feed, 1, m))

\* the samples whose EMA step was done when the remembered Value began
EMAStepsAtSnap == (probe.snap.from + 1) \div 2

\* the trend and the percentiles computed anew from a tracker's window and
\* reservoir
FreshTrend(t) ==
    LET u == calculateTrend(t)
    IN [Slope |-> u.slope, Drift |-> u.drift, PercentDrift |-> u.percentDrift]

FreshPercentiles(t) ==
    LET r == calculatePercentiles([t EXCEPT !.percentileCacheValid = FALSE])
    IN [P50 |-> r.p50, P95 |-> r.p95, P99 |-> r.p99]

TrendOf(stats) ==
    [Slope |-> stats.Slope, Drift |-> stats.Drift, PercentDrift |-> stats.PercentDrift]

PercentilesOf(stats) == [P50 |-> stats.P50, P95 |-> stats.P95, P99 |-> stats.P99]

\* C26 as stated: the Stats that Value returns are computed, in every
\* field, from all the samples processed when it read them
C26_Original ==
    Snapped =>
        /\ probe.snap.stats.EMA = AfterSamples(EMAStepsAtSnap).emaNanos
        /\ TrendOf(probe.snap.stats) = FreshTrend(AfterSamples(EMAStepsAtSnap))
        /\ PercentilesOf(probe.snap.stats) = FreshPercentiles(AfterSamples(DoneAtSnap))

\* C26, amended: the EMA is that of all the samples processed when Value
\* read it and of no other; Slope, Drift and PercentDrift are those computed
\* at the last Process whose count was a multiple of 8; the percentiles are
\* those of the samples that were in the reservoir when a Value last
\* computed them, this one or an earlier one, and zeros if none has
C26_VisibleSamples ==
    Snapped =>
        /\ probe.snap.stats.EMA = AfterSamples(EMAStepsAtSnap).emaNanos
        /\ TrendOf(probe.snap.stats)
             = FreshTrend(AfterSamples(EMAStepsAtSnap - (EMAStepsAtSnap % 8)))
        /\ PercentilesOf(probe.snap.stats) =
             IF probe.snap.recomputed THEN FreshPercentiles(AfterSamples(DoneAtSnap))
             ELSE IF probe.snap.since = Never THEN [P50 |-> 0, P95 |-> 0, P99 |-> 0]
             ELSE FreshPercentiles(AfterSamples(DoneAtCalc))

\* Value began after Process had returned and no Process ran during it; its
\* EMA is the current one, its trend and its percentiles are older
C26_Witness ==
    /\ Snapped
    /\ probe.snap.from = probe.snap.to
    /\ probe.snap.to % 2 = 0
    /\ DoneAtSnap > 10
    /\ probe.snap.stats.EMA = trackers[1].emaNanos
    /\ TrendOf(probe.snap.stats) # FreshTrend(AfterSamples(DoneAtSnap))
    /\ PercentilesOf(probe.snap.stats) # FreshPercentiles(AfterSamples(DoneAtSnap))

\* the alpha of the tracker in thousandths: that of the last WithAlpha among
\* the options, clamped to 0.01 and 0.99, and 0.25 without one
RECURSIVE LastAlpha(_)
LastAlpha(opts) ==
    IF opts = <<>> THEN 250
    ELSE IF opts[Len(opts)].name = "WithAlpha"
    THEN (IF opts[Len(opts)].arg <= 0 THEN 10
          ELSE IF opts[Len(opts)].arg >= 1000 THEN 990 ELSE opts[Len(opts)].arg)
    ELSE LastAlpha(SubSeq(opts, 1, Len(opts) - 1))

\* alpha * 1024 rounded to the nearest integer, and rounded down
RoundedFactor == (LastAlpha(probe.opts) * 1024 + 500) \div 1000
TruncatedFactor == (LastAlpha(probe.opts) * 1024) \div 1000

\* the part of Process under mu runs, and not for the first sample
EMAStep ==
    /\ probe.op = "tracker"
    /\ probe.proc = "idle"
    /\ probe'.proc = "sample"
    /\ Len(trackers[1].emaSlice) > 0

\* the step sets the EMA to (a*sample + (1024 - a)*EMA) >> 10
UpdatedWith(a) ==
    trackers'[1].emaNanos =
        (a * probe.feed[probe.next] + (1024 - a) * trackers[1].emaNanos) \div 1024

FactorsSumToScale ==
    probe.op = "tracker" => trackers[1].alpha + trackers[1].alphaComp = 1024

\* C30 as stated: every Process after the first sets the EMA to
\* (a*sample + (1024 - a)*EMA) >> 10 with a = round(alpha * 1024), and the
\* factor and its complement sum to 1024 whatever the options
C30_Original ==
    [][FactorsSumToScale /\ (EMAStep => UpdatedWith(RoundedFactor))]_vars

\* C30, amended: the same with a = alpha * 1024 rounded down, alpha being
\* the clamped argument of the last WithAlpha
C30_TruncatedFactor ==
    [][/\ FactorsSumToScale
       /\ EMAStep => (UpdatedWith(TruncatedFactor) /\ trackers[1].alpha = TruncatedFactor)]_vars

\* alpha 0.9 after another option: the factor is 921, and the second
\* sample, 2000 after 0, has made the EMA 1798
C30_Witness ==
    /\ probe.op = "tracker"
    /\ probe.opts = <<Opt("WithWindowSize", 5), Opt("WithAlpha", 900)>>
    /\ probe.feed = <<0, 2000>>
    /\ probe.next = 2
    /\ probe.proc = "sample"
    /\ trackers[1].alpha = 921
    /\ trackers[1].alphaComp = 103
    /\ trackers[1].emaNanos = 1798

----------------------------------------------------------------------------
(* Claims about the drop rate *)

\* DropRate returns
RateReturned ==
    /\ probe.op = "droprate"
    /\ probe.pc = "loaded"
    /\ probe'.pc = "returned"

C28_AboveHundred ==
    /\ probe.op = "droprate"
    /\ probe.pc = "returned"
    /\ probe.rate = [num |-> 200, den |-> 1]

----------------------------------------------------------------------------
(* Claims about the breaker's success count *)

\* RecordFailure is called on a HalfOpen breaker
FailureInHalfOpen == Called("RecordFailure") /\ breaker.state = StateHalfOpen

\* C29 as stated: a RecordFailure in HalfOpen cancels the successes counted
\* so far, also when the rate limit keeps it from opening the breaker
C29_Original ==
    [][FailureInHalfOpen =>
          (breaker'.state = StateOpen \/ breaker'.successCount = 0)]_vars

\* C29, what RecordFailure does: in HalfOpen it opens the breaker when
\* minTimeBetweenOps has passed since the last change of state, and
\* otherwise it changes nothing, the success count included
C29_FailureKeepsCount ==
    [][FailureInHalfOpen =>
          /\ breaker'.state = StateOpen <=> Elapsed >= breaker.minTimeBetweenOps
          /\ breaker'.state # StateOpen => breaker' = breaker
          /\ breaker'.successCount = breaker.successCount]_vars

\* a RecordFailure has just been made in HalfOpen, and the success counted
\* before it is still counted
C29_Witness ==
    /\ probe = NoProbe
    /\ call.op = "RecordFailure"
    /\ breaker.state = StateHalfOpen
    /\ breaker.successThreshold = 2
    /\ breaker.successCount = 1

----------------------------------------------------------------------------
(* Claims about the registry of trackers *)

\* the entries of a registry, whatever their order
Entries(reg) == {reg[i] : i \in 1..Len(reg)}

\* the trackers registered under a key
TrackersOf(reg, key) == {e.tracker : e \in {x \in Entries(reg) : x.key = key}}

\* no key has two entries, and there are at most CacheSize entries
RegistryBounded(reg) ==
    /\ \A i, j \in 1..Len(reg) : reg[i].key = reg[j].key => i = j
    /\ Len(reg) <= cfg.CacheSize

\* request r looks its key up and finds it, looks it up and misses, adds
\* the tracker it has made
LookupHit(r) == req[r].pc = "idle" /\ req'[r].pc = "gate"
LookupMiss(r) == req[r].pc = "idle" /\ req'[r].pc = "add"
Added(r) == req[r].pc = "add" /\ req'[r].pc = "gate"

\* C27: the registry has at most one entry for a key and at most CacheSize
\* entries; a lookup that finds the key takes the tracker registered under
\* it, makes no tracker and leaves the entries as they are; a lookup misses
\* only when the key has no entry; and a request that missed registers the
\* tracker it made under its key, in place of any tracker that another
\* request has registered under that key since
C27_OneTrackerPerKey ==
    [][/\ RegistryBounded(registry)
       /\ RegistryBounded(registry')
       /\ \A r \in Reqs :
             /\ LookupHit(r) =>
                   /\ TrackersOf(registry, req'[r].key) = {req'[r].tracker}
                   /\ trackers' = trackers
                   /\ Entries(registry') = Entries(registry)
             /\ LookupMiss(r) =>
                   /\ TrackersOf(registry, req'[r].key) = {}
                   /\ registry' = registry
             /\ Added(r) =>
                   /\ Len(trackers') = Len(trackers) + 1
                   /\ req'[r].tracker = Len(trackers')
                   /\ registry'[1].key = req[r].key
                   /\ TrackersOf(registry', req[r].key) = {req'[r].tracker}]_vars

\* two requests for POST /a have each made a tracker; the later one is
\* registered, the earlier one is in no entry, and the tracker of GET /a is
\* still registered
C27_Witness ==
    /\ \A r \in Reqs : req[r].pc = "gate" /\ req[r].key = RouteKey("http", "POST", <<"/", "a">>)
    /\ req["r1"].tracker = 2
    /\ req["r2"].tracker = 3
    /\ Len(registry) = 2
    /\ registry[1].tracker = 3
    /\ registry[2].key = RouteKey("http", "GET", <<"/", "a">>)

\* the trackers of POST /a and PUT /a are registered and the tracker of
\* GET /a has been evicted
C27_Evicted ==
    /\ Len(trackers) = 3
    /\ Len(registry) = 2
    /\ \A i \in 1..2 : registry[i].key # RouteKey("http", "GET", <<"/", "a">>)

\* a request for POST /a has found the tracker that the request before it
\* registered and fed
C27_Found ==
    /\ Len(trackers) = 2
    /\ disp.totalCount = 1
    /\ trackers[2].processCount = 1
    /\ req["r1"].pc = "idle"
    /\ req["r2"].pc = "gate"
    /\ req["r2"].key = RouteKey("http", "POST", <<"/", "a">>)
    /\ req["r2"].tracker = 2

----------------------------------------------------------------------------
(* Claims about the EMA window and the trend *)

\* the EMA after each of the first m samples of the feed, in order
RECURSIVE EMASequence(_)
EMASequence(m) ==
    IF m = 0 THEN <<>>
    ELSE IF m = 1 THEN <<probe.feed[1]>>
    ELSE LET before == EMASequence(m - 1)
             a == trackers[1].alpha
         IN Append(before,
                   (a * probe.feed[m] + (1024 - a) * before[m - 1]) \div 1024)

\* the last n elements of a sequence, all of it when it has fewer
LastOf(q, n) == IF Len(q) <= n THEN q ELSE SubSeq(q, Len(q) - n + 1, Len(q))

\* the window after m samples
WindowAfter(m) == LastOf(EMASequence(m), trackers[1].windowSize)

\* the mean of a sequence of integers, rounded towards zero
MeanOf(q) == Quot(SumSeq(q), Len(q))

\* the trend of a window: the mean first difference, the mean of the newer
\* half less the mean of the older half, and that as a percentage of the
\* mean of the older half
TrendOfWindow(w) ==
    LET n == Len(w)
        older == SubSeq(w, 1, n \div 2)
        newer == SubSeq(w, n \div 2 + 1, n)
        d == MeanOf(newer) - MeanOf(older)
    IN IF n < 4
       THEN [Slope |-> 0, Drift |-> 0, PercentDrift |-> NoPercentDrift]
       ELSE [Slope |-> Quot(w[n] - w[1], n - 1),
             Drift |-> d,
             PercentDrift |-> IF MeanOf(older) # 0 /\ d # 0
                              THEN [num |-> d * 100, den |-> MeanOf(older)]
                              ELSE NoPercentDrift]

\* the trend after m samples: that of the window at the last multiple of 8
TrendAfter(m) == TrendOfWindow(WindowAfter(m - (m % 8)))

\* the samples that have been through the part of Process under mu
EMAStepsDone == (ProcessSteps + 1) \div 2

\* C31: the window holds the last min(n, N) EMAs in order; the stored trend,
\* and the trend that Value returns, is that of the window as it stood at
\* the last Process whose ordinal was a multiple of 8, and 0 before the 8th
C31_WindowAndTrend ==
    probe.op = "tracker" =>
        /\ trackers[1].emaSlice = WindowAfter(EMAStepsDone)
        /\ [Slope |-> trackers[1].slope, Drift |-> trackers[1].drift,
            PercentDrift |-> trackers[1].percentDrift] = TrendAfter(EMAStepsDone)
        /\ Snapped => TrendOf(probe.snap.stats) = TrendAfter(EMAStepsAtSnap)

\* 19 samples into a window of 4: the window has slid, and Value returns
\* the slope and the drift of the window as it stood at the 16th
C31_Witness ==
    /\ SnappedAfter(19)
    /\ trackers[1].windowSize = 4
    /\ Len(trackers[1].emaSlice) = 4
    /\ probe.snap.stats.Slope > 0
    /\ probe.snap.stats.Drift > 0
    /\ probe.snap.stats.PercentDrift # NoPercentDrift
    /\ TrendOf(probe.snap.stats) # TrendOfWindow(trackers[1].emaSlice)

----------------------------------------------------------------------------
(* Claims about the percentiles *)

\* how many elements of q are below v, and how many are v or below
CountBelow(q, v) == Cardinality({i \in 1..Len(q) : q[i] < v})
CountUpTo(q, v) == Cardinality({i \in 1..Len(q) : q[i] <= v})

\* the element at index i, counted from 0, of q sorted ascending
Ranked(q, i) ==
    CHOOSE v \in {q[j] : j \in 1..Len(q)} : CountBelow(q, v) <= i /\ i < CountUpTo(q, v)

\* the most recent min(n, K) of the n samples processed when the remembered
\* Value returned
RecentSamples == LastOf(SubSeq(probe.feed, 1, DoneAtSnap), trackers[1].sampleSize)

\* floor(size * p / 100), and size - 1 if that is beyond the last index
PercentileIndex(size, p) ==
    IF (size * p) \div 100 >= size THEN size - 1 ELSE (size * p) \div 100

ZeroTriple == [P50 |-> 0, P95 |-> 0, P99 |-> 0]

\* C32: a Value that computes the percentiles returns the elements at the
\* indices floor(size * p / 100) of the ascending sort of the most recent
\* size = min(n, K) samples; with percentiles disabled or fewer than 10
\* samples Value returns zeros
C32_PercentilesOfRecent ==
    Snapped =>
        /\ probe.snap.recomputed =>
              /\ DoneAtSnap >= 10
              /\ PercentilesOf(probe.snap.stats) =
                    [P50 |-> Ranked(RecentSamples, PercentileIndex(Len(RecentSamples), 50)),
                     P95 |-> Ranked(RecentSamples, PercentileIndex(Len(RecentSamples), 95)),
                     P99 |-> Ranked(RecentSamples, PercentileIndex(Len(RecentSamples), 99))]
        /\ (~trackers[1].percentileEnabled \/ DoneAtSnap < 10) =>
              PercentilesOf(probe.snap.stats) = ZeroTriple
        /\ (trackers[1].percentileEnabled /\ DoneAtSnap >= 10 /\ probe.snap.since = Never) =>
              probe.snap.recomputed

\* a reservoir of 22 after 24 samples: the first two have been overwritten
\* and Value computes three different percentiles
C32_Witness ==
    /\ Snapped
    /\ probe.snap.recomputed
    /\ trackers[1].sampleSize = 22
    /\ DoneAtSnap = 24
    /\ probe.snap.stats.P50 < probe.snap.stats.P95
    /\ probe.snap.stats.P95 < probe.snap.stats.P99

\* the remembered Value returned percentiles that an earlier Value computed
ServedFromCache == ComputedBefore /\ ~probe.snap.recomputed

\* the room the reservoir had left when the percentiles were computed
RoomAtCalc ==
    IF DoneAtCalc >= trackers[1].sampleSize THEN 0
    ELSE trackers[1].sampleSize - DoneAtCalc

\* C33 as stated: a cached triple is at most about K/10 samples old (here:
\* K/10 + 1 at most), while the reservoir fills as well as when it is full
C33_Original ==
    ServedFromCache => probe.snap.since <= trackers[1].sampleSize \div 10 + 1

\* C33, what Process and Value do: a cached triple is at most K/10 samples
\* old counting only the samples that replaced one of a full reservoir;
\* with those that filled the reservoir it is up to K/10 plus the room the
\* reservoir had left when the triple was computed
C33_StaleByRoom ==
    ServedFromCache =>
        /\ Overwrites <= trackers[1].sampleSize \div 10
        /\ probe.snap.since <= RoomAtCalc + trackers[1].sampleSize \div 10

\* a reservoir of 20: the percentiles were computed from 10 samples, and
\* after 12 more Value still returns them
C33_Witness ==
    /\ ServedFromCache
    /\ trackers[1].sampleSize = 20
    /\ DoneAtCalc = 10
    /\ probe.snap.since = 12
    /\ probe.snap.stats.P99 > 0

----------------------------------------------------------------------------
(* Claims about the tracker's locks *)

\* a goroutine is inside a call of Process or Value
InCall(g) == probe.op = "locks" /\ probe.pc[g] # "idle"

\* no goroutine holds both locks; mu has one writer or readers only, and
\* percentileMu one holder
LocksApart ==
    probe.op = "locks" =>
        /\ \A g \in Threads : ~(HoldsMu(g) /\ HoldsPMu(g))
        /\ \A g, h \in Threads : (WritesMu(g) /\ HoldsMu(h)) => g = h
        /\ \A g, h \in Threads : (HoldsPMu(g) /\ HoldsPMu(h)) => g = h

\* while a call is in progress some goroutine inside a call can take a step
NoDeadlock == (\E g \in Threads : InCall(g)) => ENABLED (\E g \in Threads : LockStep(g))

\* C34: no goroutine ever holds mu and percentileMu together; the calls in
\* progress never block one another for good; and every call of Process
\* and of Value returns
C34_LocksNeverNested ==
    /\ []LocksApart
    /\ []NoDeadlock
    /\ \A g \in Threads : InCall(g) ~> ~InCall(g)

\* one goroutine holds percentileMu in Process while another holds mu for
\* writing and the third waits for mu in Value
C34_Witness ==
    /\ probe.op = "locks"
    /\ \E g, h, k \in Threads :
          /\ HoldsPMu(g) /\ probe.kind[g] = "Process"
          /\ WritesMu(h)
          /\ probe.kind[k] = "Value" /\ probe.pc[k] = "lockMu"

----------------------------------------------------------------------------
(* Claims about the breaker's transitions *)

\* the breaker goes from one state to another
Goes(from, to) == breaker.state = from /\ breaker'.state = to

\* C35: the state changes only from Closed to Open by RecordFailure, from
\* Open to HalfOpen by Allow, from HalfOpen to Closed by RecordSuccess, from
\* HalfOpen to Open by RecordFailure and from any state to Closed by Reset;
\* RecordSuccess and RecordFailure in Open change nothing
C35_Transitions ==
    [][/\ breaker'.state # breaker.state =>
             \/ Goes(StateClosed, StateOpen) /\ Called("RecordFailure")
             \/ Goes(StateOpen, StateHalfOpen) /\ Called("Allow")
             \/ Goes(StateHalfOpen, StateClosed) /\ Called("RecordSuccess")
             \/ Goes(StateHalfOpen, StateOpen) /\ Called("RecordFailure")
             \/ breaker'.state = StateClosed /\ Called("Reset")
       /\ (breaker.state = StateOpen
              /\ (Called("RecordSuccess") \/ Called("RecordFailure"))) =>
             breaker' = breaker]_vars

\* RecordSuccess has been called on an Open breaker, which is still Open
\* with its failure count
C35_Witness ==
    /\ probe = NoProbe
    /\ call.op = "RecordSuccess"
    /\ breaker.state = StateOpen
    /\ breaker.failureCount = breaker.maxFailures
    /\ breaker.maxFailures = 2

----------------------------------------------------------------------------
(* Claims about an endpoint that stays rejected *)

\* the level a request reading tracker t is given
ClassifiesAs(t) == LevelWithThresholds(Value(t).stats, cfg.Thresholds)

Classifies(i) == ClassifiesAs(trackers[i])

Overloaded(i) == Classifies(i) \in {Critical, Emergency}

\* the queue holds no event for tracker i
NoEventIn(ch, i) == \A k \in 1..Len(ch) : ch[k].Target # i

NoEventFor(i) == NoEventIn(disp.inputCh, i)

\* the worker holds no event for tracker i
NotInHandFor(i) == worker.ev.Target # i

\* a request that will not emit a sample for tracker i, which is t: one of
\* another tracker, one that has not read it yet, one that has read what it
\* holds now, or one that is past its Emit
HarmlessTo(q, i, t) ==
    \/ q.tracker # i
    \/ q.pc \in {"idle", "add", "gate", "value", "emitted", "done"}
    \/ /\ q.pc = "percentiles"
       /\ q.stats = ValueEMA(t)
    \/ /\ q.pc = "switch"
       /\ q.level \in {Critical, Emergency}

\* tracker i, which is t, classifies as Critical or Emergency, and no sample
\* for it is under way: none in the queue ch, none in the hand of the worker
\* w, none with a request of rq admitted earlier
SettledIn(i, t, ch, w, rq) ==
    /\ ClassifiesAs(t) \in {Critical, Emergency}
    /\ NoEventIn(ch, i)
    /\ w.ev.Target # i
    /\ \A r \in Reqs : HarmlessTo(rq[r], i, t)

Settled(i) == SettledIn(i, trackers[i], disp.inputCh, worker, req)

\* a request for tracker i leaves the switch rejected, with no handler run
\* and no sample emitted
LeavesRejected(r) ==
    req[r].pc = "switch" /\ req'[r].pc # "switch" =>
        /\ req'[r].pc = "done"
        /\ req'[r].response = OverloadResponse(transport, req[r].level)
        /\ req'[r].trace.emit = req[r].trace.emit
        /\ req'[r].trace.handler = req[r].trace.handler
        /\ disp' = disp

\* what a reader of tracker i is given stays what it is
SnapshotKept(i) ==
    /\ Value(trackers'[i]).stats = Value(trackers[i]).stats
    /\ ClassifiesAs(trackers'[i]) = ClassifiesAs(trackers[i])

C36_LateSample ==
    \E r \in Reqs :
        /\ req[r].pc \in {"running", "emit", "send"}
        /\ req[r].tracker \in DOMAIN trackers
        /\ Overloaded(req[r].tracker)
        /\ disp.inputCh = <<>>
        /\ NotInHandFor(req[r].tracker)

----------------------------------------------------------------------------
(* Claims about the breaker all endpoints share *)

\* the breaker is Open and its timeout has not elapsed
OpenBeforeTimeout ==
    breaker.state = StateOpen /\ now - breaker.lastStateTime < breaker.timeout

\* the request's own endpoint is one whose tracker classifies as Normal
OwnTrackerNormal(q) ==
    /\ q.tracker \in DOMAIN trackers
    /\ ClassifiesAs(trackers[q.tracker]) = Normal

\* the request recorded a failure for its endpoint
RecordedFailure(q) ==
    q.pc = "done" /\ q.level \in {Critical, Emergency} /\ q.trace.failure = 1

\* C37: there is one breaker for all endpoints: the rejection of a request of
\* any endpoint is a RecordFailure on it, counted on top of the failures of
\* the other endpoints, and while it is Open and its timeout has not elapsed
\* the Allow of a request of any endpoint fails and the request is rejected as
\* circuit-open, whatever its own tracker says
C37_SharedBreaker ==
    [][\A r \in Reqs :
          StepOf(r) =>
              /\ (req[r].pc = "switch" /\ req[r].level \in {Critical, Emergency}) =>
                    /\ breaker' = RecordFailure(breaker, now)
                    /\ breaker.state = StateClosed =>
                          breaker'.failureCount = breaker.failureCount + 1
              /\ (req[r].pc = "gate" /\ OpenBeforeTimeout) =>
                    /\ req'[r].pc = "done"
                    /\ req'[r].gate = "rejected"
                    /\ req'[r].response = CircuitOpenResponse(transport)
                    /\ req'[r].trace.handler = 0
                    /\ req'[r].trace.emit = 0
                    /\ breaker' = breaker
                    /\ UNCHANGED <<trackers, disp>>]_vars

\* a request of an endpoint whose tracker classifies as Normal is rejected as
\* circuit-open, the breaker having been opened by other endpoints
C37_Witness ==
    \E r \in Reqs, o \in Reqs :
        /\ req[r].pc = "done"
        /\ req[r].gate = "rejected"
        /\ req[r].response = CircuitOpenResponse(transport)
        /\ OwnTrackerNormal(req[r])
        /\ RecordedFailure(req[o])
        /\ req[o].key # req[r].key
        /\ OpenBeforeTimeout

\* the failures of two endpoints are counted together
C37_BothCounted ==
    \E r \in Reqs, o \in Reqs :
        /\ RecordedFailure(req[r])
        /\ RecordedFailure(req[o])
        /\ req[o].key # req[r].key
        /\ breaker.state = StateOpen
        /\ breaker.failureCount = cfg.CircuitBreakerMaxFailures
        /\ Len(trackers) = 2

----------------------------------------------------------------------------
(* Claims about the breaker under concurrent requests *)

\* the handler of a request that is not skipped starts
HandlerStarts(r) ==
    /\ req[r].pc = "switch"
    /\ req'[r].pc = "running"
    /\ ~req[r].skip

\* C38 as stated: no handler of a request that is not skipped starts while
\* the breaker is Open and its timeout has not elapsed
C38_Original ==
    [][\A r \in Reqs : HandlerStarts(r) => ~OpenBeforeTimeout]_vars

\* C38: a handler starts only for a request whose own Allow returned true,
\* whatever the breaker has become since; the record call of the request is
\* made on the breaker as it is at the switch
C38_AllowedAtItsCheck ==
    [][\A r \in Reqs :
          HandlerStarts(r) =>
              /\ req[r].gate \in {"closed", "halfopen", "halfopened"}
              /\ req[r].trace.allow = 1
              /\ breaker' = CASE Switch(req[r].level).call = "RecordSuccess" ->
                                    RecordSuccess(breaker, now)
                              [] OTHER -> breaker]_vars

\* the handler of a request that passed Allow while the breaker was Closed
\* runs while the breaker is Open and its timeout has not elapsed
C38_Witness ==
    \E r \in Reqs :
        /\ req[r].pc = "running"
        /\ ~req[r].skip
        /\ req[r].gate = "closed"
        /\ req[r].start = now
        /\ OpenBeforeTimeout
        /\ breaker.lastStateTime < now

----------------------------------------------------------------------------
(* Claims about the dispatcher's counters and channel *)

\* the events the worker has received from the channel: those it has applied
\* and the one it holds
HandedToWorker == Len(hist.applied) + Len(InHand)

\* C39: under any interleaving of the calls of Emit and the worker, the
\* dropped counter is at most the total counter, the channel holds at most
\* bufSize events, and when no call of Emit is in progress the total counter
\* is the dropped counter plus the events waiting in the channel plus the
\* events handed to the worker
C39_Conservation ==
    /\ disp.droppedCount <= disp.totalCount
    /\ Len(disp.inputCh) <= disp.bufSize
    /\ Quiescent =>
          disp.totalCount = disp.droppedCount + Len(disp.inputCh) + HandedToWorker

\* with no call of Emit in progress, three events have been emitted: one was
\* dropped, one waits in the channel, one has been handed to the worker
C39_Witness ==
    /\ Quiescent
    /\ disp.totalCount = 3
    /\ disp.droppedCount = 1
    /\ Len(disp.inputCh) = 1
    /\ HandedToWorker = 1

----------------------------------------------------------------------------
(* Claims about the pipeline after its context is cancelled *)

\* the next step of a request on its way through the middleware, from any
\* position but the second part of Value (ReadPercentiles, which has no
\* condition but that position)
RequestStep(r) ==
    \/ Add(r)
    \/ Gate(r)
    \/ ReadEMA(r)
    \/ SwitchLevel(r)
    \/ HandlerReturn(r)
    \/ EmitCount(r)
    \/ EmitSelect(r)
    \/ EmitDrop(r)
    \/ Return(r)
    \/ Finish(r)

WorkerExited == cancelled /\ worker.pc = "exited"

\* no request waits for anything once the context is cancelled
NeverBlocked ==
    cancelled =>
        \A r \in Reqs :
            req[r].pc \notin {"idle", "percentiles"} => ENABLED RequestStep(r)

\* the steps of a request once the worker has exited: it is classified by
\* what its tracker holds, an admitted request runs its handler and calls
\* Emit when the handler returns, and Emit sends while the buffer has room
\* and drops when it has none
StepsAfterExit(r) ==
    LET q == req[r]
        t == trackers[q.tracker]
    IN
    /\ q.pc = "value" => req'[r].stats = ValueEMA(t)
    /\ (q.pc = "percentiles" /\ q.stats = ValueEMA(t)) =>
          /\ req'[r].stats = Value(t).stats
          /\ req'[r].level = ClassifiesAs(t)
    /\ q.pc = "switch" =>
          req'[r].pc = (IF q.level \in {Critical, Emergency} THEN "done" ELSE "running")
    /\ (q.pc = "running" /\ ~q.skip /\ req'[r].result # "panic") =>
          req'[r].pc = "emit"
    /\ q.pc = "emit" =>
          /\ req'[r].pc = "send"
          /\ disp'.totalCount = disp.totalCount + 1
    /\ q.pc = "send" =>
          IF Len(disp.inputCh) < disp.bufSize
          THEN /\ req'[r].emit = "sent"
               /\ disp'.inputCh = Append(disp.inputCh, EventOf(q))
          ELSE /\ req'[r].pc = "drop"
               /\ disp'.inputCh = disp.inputCh
    /\ q.pc = "drop" =>
          /\ req'[r].emit = "dropped"
          /\ disp'.droppedCount = disp.droppedCount + 1

\* what the readers of the trackers are given stays what it is, and nothing
\* is received from the channel
StatisticsKept ==
    /\ worker' = worker
    /\ IsPrefix(disp.inputCh, disp'.inputCh)
    /\ \A i \in DOMAIN trackers :
          /\ i \in DOMAIN trackers'
          /\ Value(trackers'[i]).stats = Value(trackers[i]).stats

\* C40: after the cancellation no request is blocked; once the worker has
\* exited the requests are classified by what the trackers hold, admitted
\* requests run their handlers and call Emit, Emit enqueues until the buffer
\* is full and drops afterwards, and no tracker's statistics change
C40_RequestPathAfterCancel ==
    /\ []NeverBlocked
    /\ [][WorkerExited =>
            /\ StatisticsKept
            /\ \A r \in Reqs : StepOf(r) => StepsAfterExit(r)]_vars

\* the worker has exited; since then a request was admitted and its sample
\* fills the buffer, and a later request ran its handler and had its sample
\* dropped
C40_Witness ==
    /\ WorkerExited
    /\ disp.bufSize = 1
    /\ Len(disp.inputCh) = 1
    /\ disp.droppedCount = 1
    /\ disp.totalCount = 2
    /\ \E r \in Reqs :
          /\ req[r].pc = "emitted"
          /\ req[r].emit = "dropped"
          /\ req[r].trace.handler = 1
====
